---- MODULE Spec2Model ----
(***************************************************************************)
(* A model of the reactive form validator (useForm + FormValidator).       *)
(*                                                                         *)
(* JavaScript strings that the code takes apart (field keys, which are     *)
(* split on '.', matched with startsWith and rewritten by normalizeKey)    *)
(* are sequences of one-character strings: the key  u.n  is                *)
(* <<"u", ".", "n">>.  Field values are TLA+ strings: the JavaScript       *)
(* values undefined, null, '' and 'x', and the references to the objects   *)
(* of the heap ("@m" is the model object).                                 *)
(***************************************************************************)
EXTENDS Integers, Sequences, FiniteSets, TLC

VARIABLES
  heap,             \* the objects: reference -> (segment -> value)
  options,          \* the UseFormOptions the form was built with
  ruleSource,       \* the declared rules (the rules argument of useForm)
  normalizedRules,  \* FormValidator.normalizedRules
  deepRuleKeys,     \* FormValidator.deepRuleKeys
  watchHandles,     \* FormValidator.watchHandles: the keys that hold a handle
  watchers,         \* the active watchers of the store: key -> how many
  validateInfos,    \* FormValidator._validateInfos
  scopeActive,      \* FormValidator.scope is active (not disposed)
  timer,            \* the one timer of the debounced validate function
  jobs,             \* watcher jobs queued in the scheduler (keys)
  ticks,            \* nextTick callbacks queued by resetFields
  inflight,         \* RuleEngine calls that have not settled yet
  vf,               \* the validateField call in progress
  done,             \* how the last validateField call ended
  last,             \* what the last step did
  ops,              \* caller operations made so far
  resetRun,         \* resetFields was called with nothing pending, and the
                    \* caller has made no operation since
  probe             \* the last application of a pure function

vars == <<heap, options, ruleSource, normalizedRules, deepRuleKeys, watchHandles,
          watchers, validateInfos, scopeActive, timer, jobs, ticks, inflight,
          vf, done, last, ops, probe, resetRun>>

(***************************************************************************)
(* Bounds.                                                                 *)
(***************************************************************************)
MaxOps == 3
MaxTime == 6

(***************************************************************************)
(* Strings and maps.                                                       *)
(***************************************************************************)
EmptyMap == [k \in {} |-> ""]

Put(m, k, v) == [x \in (DOMAIN m) \cup {k} |-> IF x = k THEN v ELSE m[x]]

\* Object.assign(target, source) on maps.
AssignSourceOnly(target, source) == source
Assign(target, source) ==
  [x \in (DOMAIN target) \cup (DOMAIN source) |->
     IF x \in DOMAIN source THEN source[x] ELSE target[x]]

Dot(a, b) == a \o <<".">> \o b

StartsWith(s, p) == Len(p) <= Len(s) /\ SubSeq(s, 1, Len(p)) = p

RECURSIVE Split(_)
Split(s) ==
  IF \E i \in 1..Len(s) : s[i] = "."
  THEN LET i == CHOOSE j \in 1..Len(s) :
                  s[j] = "." /\ \A m \in 1..(j - 1) : s[m] # "."
       IN  <<SubSeq(s, 1, i - 1)>> \o Split(SubSeq(s, i + 1, Len(s)))
  ELSE <<s>>

RECURSIVE Join(_)
Join(segs) ==
  IF Len(segs) = 0 THEN <<>>
  ELSE IF Len(segs) = 1 THEN segs[1]
  ELSE Dot(segs[1], Join(Tail(segs)))

(***************************************************************************)
(* Values and the heap.                                                    *)
(***************************************************************************)
VUndef == "undefined"
VNull == "null"

ModelRef == "@m"
ModelU == "@mu"
InitialRef == "@i"
InitialU == "@iu"

IsObject(h, v) == v \in DOMAIN h

kN == <<"n">>
kE == <<"e">>
kU == <<"u">>
kP == <<"p">>
kUn == <<"u", "n">>
kUN == Dot(kU, kN)
kUnN == Dot(kUn, kN)
kUNP == Dot(kUN, kP)
kEUN == Dot(kE, kUN)

(***************************************************************************)
(* get(obj, key): the walk along the key's segments.  `k in value` throws  *)
(* a TypeError when value is not an object; threw records that.            *)
(***************************************************************************)
ExistOfMiss(d) == d = 0

RECURSIVE GetWalk(_, _, _, _)
GetWalk(h, value, keys, i) ==
  IF i > Len(keys)
  THEN [value |-> value, exist |-> TRUE, diff |-> 0, threw |-> FALSE]
  ELSE IF ~IsObject(h, value)
  THEN [value |-> VUndef, exist |-> FALSE, diff |-> 0, threw |-> TRUE]
  ELSE IF keys[i] \in DOMAIN h[value]
  THEN GetWalk(h, h[value][keys[i]], keys, i + 1)
  ELSE LET d == Len(keys) - i
       IN  [value |-> VUndef, exist |-> ExistOfMiss(d), diff |-> d, threw |-> FALSE]

Get(h, obj, key) == GetWalk(h, obj, Split(key), 1)

(***************************************************************************)
(* toArray, and the rules.  A rule is a record that always carries every   *)
(* field the code reads; hasFields and hasDefault say whether `fields` and *)
(* `defaultField` are set.  A rule with custom = TRUE has a `validator`    *)
(* function, whose verdict is the environment's.                           *)
(***************************************************************************)
NoRule ==
  [required |-> FALSE, type |-> "", message |-> "", custom |-> FALSE,
   hasFields |-> FALSE, fields |-> EmptyMap, hasDefault |-> FALSE,
   defaultField |-> <<>>]

RequiredRule(msg) == [NoRule EXCEPT !.required = TRUE, !.message = msg]

CustomRule(msg) == [NoRule EXCEPT !.custom = TRUE, !.message = msg]

ObjectRule(fields) ==
  [NoRule EXCEPT !.type = "object", !.hasFields = TRUE, !.fields = fields]

ArrayRule(defaultField) ==
  [NoRule EXCEPT !.type = "array", !.hasDefault = TRUE, !.defaultField = defaultField]

\* A declared value of the rule source is one rule, [kind |-> "one",
\* rule |-> r], a list of rules, [kind |-> "many", rules |-> rs], or
\* undefined, [kind |-> "absent"].
One(r) == [kind |-> "one", rule |-> r]

\* toArray(value, true)
ToArrayFirstOnly(v) ==
  IF v.kind = "many" THEN SubSeq(v.rules, 1, 1)
  ELSE IF v.kind = "absent" THEN <<>>
  ELSE <<v.rule>>

ToArray(v) ==
  IF v.kind = "many" THEN v.rules
  ELSE IF v.kind = "absent" THEN <<>>
  ELSE <<v.rule>>

isRequiredFirst(rules) == Len(rules) > 0 /\ rules[1].required

SomeRequired(rules) == \E i \in 1..Len(rules) : rules[i].required

isRequired(rules) == SomeRequired(rules)

isDeepRule(rule) ==
  rule.type \in {"object", "array"} /\ (rule.hasFields \/ rule.hasDefault)

RECURSIVE Flatten(_)
Flatten(ss) == IF Len(ss) = 0 THEN <<>> ELSE Head(ss) \o Flatten(Tail(ss))

\* One round of getRuleByDeepRule's while loop: the rules for currentKey.
CurrentRules(deepRules, currentKey) ==
  Flatten([r \in 1..Len(deepRules) |->
     IF isDeepRule(deepRules[r])
     THEN deepRules[r].defaultField
          \o (IF currentKey \in DOMAIN deepRules[r].fields
              THEN deepRules[r].fields[currentKey] ELSE <<>>)
     ELSE <<>>])

\* The while loop; j counts from 0 as in the code.
DeepExpandNoWalk(deepRules, keys, j) == [rules |-> deepRules, j |-> Len(keys)]
RECURSIVE DeepExpand(_, _, _)
DeepExpand(deepRules, keys, j) ==
  IF Len(deepRules) > 0 /\ j < Len(keys)
  THEN DeepExpand(CurrentRules(deepRules, keys[j + 1]), keys, j + 1)
  ELSE [rules |-> deepRules, j |-> j]

getRuleByDeepRule(key, rules) ==
  LET keys == Split(key)
      at(i) ==
        LET prefix == Join(SubSeq(keys, 1, i + 1))
            start == IF prefix \in DOMAIN rules THEN rules[prefix] ELSE <<>>
            r == DeepExpand(start, keys, i + 1)
        IN  IF r.j >= Len(keys) THEN r.rules ELSE <<>>
  IN  Flatten([i \in 1..Len(keys) |-> at(i - 1)])

(***************************************************************************)
(* The RuleEngine (async-validator), called with one field's rules and     *)
(* value and firstFields: true.  It is an external collaborator; this is   *)
(* its contract as the tests of the repository show it: an empty value     *)
(* fails a required rule with the rule's message, an object rule checks    *)
(* the declared fields of the object, a field stops at its first failing   *)
(* rule.  choice is what the custom validators of the call do: "pass",     *)
(* "fail", or "throw" (the call rejects without errors and fields).        *)
(***************************************************************************)
RECURSIVE SetToSeq(_)
SetToSeq(S) ==
  IF S = {} THEN <<>>
  ELSE LET x == CHOOSE y \in S : TRUE IN <<x>> \o SetToSeq(S \ {x})

IsEmptyValue(v) == v \in {VUndef, VNull, ""}

EngineError(rule, field, value) ==
  [message |-> rule.message, fieldValue |-> value, field |-> field]

RECURSIVE FieldErrors(_, _, _, _, _, _)
RECURSIVE RuleErrors(_, _, _, _, _)
RuleErrors(h, rule, field, value, choice) ==
  IF rule.custom
  THEN IF choice = "fail" THEN <<EngineError(rule, field, value)>> ELSE <<>>
  ELSE IF rule.required /\ IsEmptyValue(value)
  THEN <<EngineError(rule, field, value)>>
  ELSE IF rule.type \in {"object", "array"} /\ ~IsEmptyValue(value)
          /\ ~IsObject(h, value)
  THEN <<EngineError(rule, field, value)>>
  ELSE IF isDeepRule(rule) /\ IsObject(h, value)
  THEN LET segs == (IF rule.hasDefault THEN DOMAIN h[value] ELSE {})
                     \cup DOMAIN rule.fields
           sub(seg) ==
             FieldErrors(h,
               IF seg \in DOMAIN rule.fields THEN rule.fields[seg]
               ELSE rule.defaultField,
               Dot(field, seg),
               IF seg \in DOMAIN h[value] THEN h[value][seg] ELSE VUndef,
               choice, 1)
           order == SetToSeq(segs)
       IN  Flatten([i \in 1..Len(order) |-> sub(order[i])])
  ELSE <<>>

\* firstFields: the field's rules in order, up to the first that fails.
FieldErrors(h, rules, field, value, choice, i) ==
  IF i > Len(rules) THEN <<>>
  ELSE LET errs == RuleErrors(h, rules[i], field, value, choice)
       IN  IF Len(errs) > 0 THEN errs
           ELSE FieldErrors(h, rules, field, value, choice, i + 1)

\* convertFieldsError: the errors grouped by field.
FieldsOf(errors) ==
  [f \in {errors[i].field : i \in 1..Len(errors)} |->
     SelectSeq(errors, LAMBDA e : e.field = f)]

HasCustom(rules) == \E i \in 1..Len(rules) : rules[i].custom

RuleEngine(h, key, rules, value, choice) ==
  IF HasCustom(rules) /\ choice = "throw"
  THEN [kind |-> "throw", errors |-> <<>>, fields |-> EmptyMap]
  ELSE LET errors == FieldErrors(h, rules, key, value, choice, 1)
       IN  IF Len(errors) = 0
           THEN [kind |-> "ok", errors |-> <<>>, fields |-> EmptyMap]
           ELSE [kind |-> "fail", errors |-> errors, fields |-> FieldsOf(errors)]

(***************************************************************************)
(* normalizeKey on a string key: /\[(\w+)\]/g becomes '.$1', then a        *)
(* leading '.' is dropped.                                                 *)
(***************************************************************************)
BracketEnd(s) ==
  IF Len(s) >= 3 /\ s[1] = "["
  THEN {j \in 3..Len(s) : s[j] = "]" /\ \A m \in 2..(j - 1) : s[m] \in {"n", "e", "u", "p", "a", "b", "z", "0", "1", "_"}}
  ELSE {}

RECURSIVE BracketsToDots(_)
BracketsToDots(s) ==
  IF Len(s) = 0 THEN <<>>
  ELSE IF BracketEnd(s) # {}
  THEN LET j == CHOOSE x \in BracketEnd(s) : \A y \in BracketEnd(s) : x <= y
       IN  <<".">> \o SubSeq(s, 2, j - 1) \o BracketsToDots(SubSeq(s, j + 1, Len(s)))
  ELSE <<s[1]>> \o BracketsToDots(Tail(s))

\* The names that the cache object nkc = {} inherits from Object.prototype
\* (one of them stands for all): nkc[key] is not nullish for them.
ObjectPrototype == {<<"c", "o", "n", "s", "t", "r", "u", "c", "t", "o", "r">>}

\* normalizeKey(key, nkc) on a string key that the cache does not hold as
\* an own property: nkc[key] ?? (nkc[key] = key.replace(...).replace(...)).
\* For an inherited name the result is the inherited value, which is
\* written here as the one-element key it turns into when used as a key.
normalizeKey(key) ==
  IF key \in ObjectPrototype THEN <<"function Object() { [native code] }">>
  ELSE LET t == BracketsToDots(key)
       IN  IF Len(t) > 0 /\ t[1] = "." THEN Tail(t) ELSE t

(***************************************************************************)
(* FormValidator: the validation infos.                                    *)
(***************************************************************************)
Status(infos, key) ==
  IF key \in DOMAIN infos /\ "validateStatus" \in DOMAIN infos[key]
  THEN infos[key].validateStatus ELSE VUndef

\* setValidateInfo(key, info) with info an object and isCreate unset:
\* Object.assign(this._validateInfos[key], info) for each key of keys.  The
\* caller checks that the keys have an entry (Object.assign throws if not).
setValidateInfo(infos, keys, info) ==
  [k \in DOMAIN infos |-> IF k \in keys THEN Assign(infos[k], info) ELSE infos[k]]

InfoCleared == [validateStatus |-> "", error |-> VUndef]
InfoSuccess == [validateStatus |-> "success"]

\* The keys a deep registry marks true.
ValidIn(registry) == {k \in DOMAIN registry : registry[k]}

DeepKeysValid == ValidIn(deepRuleKeys)

\* The keys the absent-value branch of triggerValidate clears besides key.
AbsentCascadeIn(registry, key) ==
  IF options.deepRule
  THEN {k \in ValidIn(registry) : StartsWith(key, k) /\ key # k}
  ELSE {}

\* deepKeys: the keys triggerValidate validates together with key.
CascadeKeysNone(registry, key) == {}

CascadeKeysIn(registry, key) ==
  IF options.deepRule
  THEN {k \in ValidIn(registry) : StartsWith(k, key) /\ key # k}
  ELSE {}

SkipsValidation(g) == ~g.exist /\ (~options.strict \/ g.diff > 1)

NoCall ==
  [key |-> <<>>, value |-> VUndef, deepKeys |-> {}, owner |-> "none",
   res |-> [kind |-> "ok", errors |-> <<>>, fields |-> EmptyMap]]

(***************************************************************************)
(* triggerValidate(key, getResult) up to the RuleEngine call.  kind is     *)
(* "true" (resolved without a RuleEngine call), "threw" (a TypeError: get  *)
(* met a non-object, or the key has no validation info) or "pending".      *)
(***************************************************************************)
\* With the rule index nr and the deep registry given (those of the
\* validator when the call is made).
TriggerStartIn(nr, registry, infos, key, g, owner, choice) ==
  IF g.threw \/ key \notin DOMAIN infos
  THEN [kind |-> "threw", infos |-> infos, call |-> NoCall]
  ELSE IF SkipsValidation(g)
  THEN [kind |-> "true",
        infos |-> setValidateInfo(infos, {key} \cup AbsentCascadeIn(registry, key),
                                  InfoCleared),
        call |-> NoCall]
  ELSE LET rules == IF key \in DOMAIN nr THEN nr[key] ELSE <<>>
           deepKeys == CascadeKeysIn(registry, key)
       IN  [kind |-> "pending",
            infos |-> setValidateInfo(infos, {key} \cup deepKeys,
                                      [validateStatus |-> "validating", error |-> VUndef]),
            call |-> [key |-> key, value |-> g.value, deepKeys |-> deepKeys,
                      owner |-> owner,
                      res |-> RuleEngine(heap, key, rules, g.value, choice)]]

TriggerStart(infos, key, g, owner, choice) ==
  TriggerStartIn(normalizedRules, deepRuleKeys, infos, key, g, owner, choice)

(***************************************************************************)
(* triggerValidate after the RuleEngine call settled.  kind is how the     *)
(* promise of triggerValidate ends: "true", "map" (rejected with the       *)
(* failure map), "infra" (rejected with a FormValidationError) or          *)
(* "typeerror" (setValidateInfo threw in the catch handler).               *)
(***************************************************************************)
FailureInfoAlwaysError(call, k) ==
  [validateStatus |-> "error", error |-> call.res.errors[1].message]

FailureInfo(call, k) ==
  IF k = call.key
  THEN IF k \in DOMAIN call.res.fields
       THEN [validateStatus |-> "error", error |-> call.res.errors[1].message]
       ELSE [validateStatus |-> "success", error |-> ""]
  ELSE IF k \in DOMAIN call.res.fields
       THEN [validateStatus |-> "error", error |-> call.res.fields[k][1].message]
       ELSE [validateStatus |-> "success", error |-> VUndef]

TriggerSettleRecordsError(infos, call) ==
  [kind |-> "infra",
   infos |-> setValidateInfo(infos, {call.key} \cap DOMAIN infos,
                             [validateStatus |-> "error",
                              error |-> "FormValidationError"]),
   fields |-> EmptyMap]

TriggerSettle(infos, call) ==
  LET all == {call.key} \cup call.deepKeys
      present == all \cap DOMAIN infos
      written == IF call.key \in DOMAIN infos THEN present ELSE {}
  IN  CASE call.res.kind = "throw" ->
             [kind |-> "infra", infos |-> infos, fields |-> EmptyMap]
        [] call.res.kind = "ok" ->
             IF written = all
             THEN [kind |-> "true", infos |-> setValidateInfo(infos, all, InfoSuccess),
                   fields |-> EmptyMap]
             ELSE [kind |-> "infra",
                   infos |-> setValidateInfo(infos, written, InfoSuccess),
                   fields |-> EmptyMap]
        [] OTHER ->
             [kind |-> IF written = all THEN "map" ELSE "typeerror",
              infos |-> [k \in DOMAIN infos |->
                           IF k \in written THEN Assign(infos[k], FailureInfo(call, k))
                           ELSE infos[k]],
              fields |-> IF written = all THEN call.res.fields ELSE EmptyMap]

(***************************************************************************)
(* obtainValidateFields(props).  props.given says whether an argument was  *)
(* passed; Object.keys(normalizedRules) lists the declared keys in their   *)
(* order of declaration, then the keys added by deep rules.                *)
(***************************************************************************)
NoProps == [given |-> FALSE, keys |-> <<>>]
Props(keys) == [given |-> TRUE, keys |-> keys]

KeysOf(source) == [i \in 1..Len(source) |-> normalizeKey(source[i].key)]

\* A list without the later occurrences of its elements.
RECURSIVE Dedup(_)
Dedup(ks) ==
  IF Len(ks) = 0 THEN <<>>
  ELSE LET front == Dedup(SubSeq(ks, 1, Len(ks) - 1))
           k == ks[Len(ks)]
       IN  IF \E i \in 1..Len(front) : front[i] = k THEN front
           ELSE Append(front, k)

\* Object.keys(nr) for the rule index nr built from source.
RuleKeyOrderIn(source, nr) ==
  LET declared == Dedup(SelectSeq(KeysOf(source), LAMBDA k : k \in DOMAIN nr))
      rest == (DOMAIN nr) \ {declared[i] : i \in 1..Len(declared)}
  IN  declared \o SetToSeq(rest)

KeepsDeepKey(key) == ~options.deepRule \/ key \notin DOMAIN deepRuleKeys

obtainValidateFieldsUnfiltered(props) ==
  IF Len(props.keys) > 0
  THEN [i \in 1..Len(props.keys) |-> normalizeKey(props.keys[i])]
  ELSE RuleKeyOrderIn(ruleSource, normalizedRules)

obtainValidateFields(props) ==
  LET fields == [i \in 1..Len(props.keys) |-> normalizeKey(props.keys[i])]
  IN  IF Len(fields) > 0
      THEN SelectSeq(fields, LAMBDA k : k \in DOMAIN normalizedRules)
      ELSE SelectSeq(RuleKeyOrderIn(ruleSource, normalizedRules), KeepsDeepKey)

(***************************************************************************)
(* doValidateField and validateField.                                      *)
(***************************************************************************)
\* The own enumerable properties of a FormValidationError, which
\* Object.assign(validationErrors, error) copies: field, rule, value, name.
\* Each is written as a one-entry list that names the property.
ErrorProps(key, value) ==
  [p \in {<<"f", "i", "e", "l", "d">>, <<"r", "u", "l", "e">>,
           <<"v", "a", "l", "u", "e">>, <<"n", "a", "m", "e">>} |->
     <<[message |-> "FormValidationError", fieldValue |-> value, field |-> key]>>]

\* The validateField call in progress.  fields, idx, errs (validationErrors)
\* and cb are the call's own; the rest records what happened during it:
\* threw (a triggerValidate rejected with an Error), infra (the RuleEngine
\* rejected without a map), maps (the failure maps of the fields, merged),
\* failed (the fields whose triggerValidate rejected), engine (the fields
\* that reached the RuleEngine), absent (the fields that were not present
\* in the model when their turn came).
VfIdle ==
  [active |-> FALSE, waiting |-> FALSE, fields |-> <<>>, idx |-> 0,
   errs |-> EmptyMap, cb |-> FALSE, threw |-> FALSE, infra |-> FALSE,
   maps |-> EmptyMap, failed |-> {}, engine |-> {}, absent |-> {},
   props |-> NoProps]

DoneNone ==
  [kind |-> "none", value |-> "", map |-> EmptyMap, cb |-> FALSE, cbLog |-> <<>>,
   fields |-> <<>>, threw |-> FALSE, infra |-> FALSE, maps |-> EmptyMap,
   failed |-> {}, engine |-> {}, absent |-> {}, props |-> NoProps]

\* What Object.assign(validationErrors, e) copies from what was caught.
Copied(kind, fields, call) ==
  CASE kind = "map" -> fields
    [] kind = "infra" -> ErrorProps(call.key, call.value)
    [] OTHER -> EmptyMap

\* The await of doValidateField's loop returns or throws into the catch
\* block, and the loop moves to the next field.
Caught(v, kind, fields, call) ==
  [v EXCEPT
     !.idx = @ + 1,
     !.waiting = FALSE,
     !.errs = Assign(@, Copied(kind, fields, call)),
     !.maps = IF kind = "map" THEN Assign(@, fields) ELSE @,
     !.threw = @ \/ kind \in {"infra", "typeerror", "threw"},
     !.infra = @ \/ (kind = "infra" /\ call.res.kind = "throw"),
     !.failed = IF kind = "true" THEN @ ELSE @ \cup {v.fields[v.idx]}]

\* The loop of doValidateField from field v.idx on, up to the next
\* RuleEngine call or to the end of the list.
RECURSIVE HasPath(_, _, _, _)
HasPath(h, value, keys, i) ==
  IF i > Len(keys) THEN TRUE
  ELSE /\ IsObject(h, value)
       /\ keys[i] \in DOMAIN h[value]
       /\ HasPath(h, h[value][keys[i]], keys, i + 1)

\* Every segment of key is present on its parent.
Present(h, key) == HasPath(h, ModelRef, Split(key), 1)

\* The loop of doValidateField from field v.idx on, with the rule index
\* nr and the deep registry of the validator.
RECURSIVE RunFieldsIn(_, _, _, _, _)
RunFieldsIn(nr, registry, v, infos, choice) ==
  IF v.idx > Len(v.fields)
  THEN [pending |-> FALSE, vf |-> v, infos |-> infos, call |-> NoCall]
  ELSE LET key == v.fields[v.idx]
           t == TriggerStartIn(nr, registry, infos, key, Get(heap, ModelRef, key),
                               "vf", choice)
           w == [v EXCEPT !.absent = IF Present(heap, key) THEN @ ELSE @ \cup {key}]
       IN  IF t.kind = "pending"
           THEN [pending |-> TRUE,
                 vf |-> [w EXCEPT !.engine = @ \cup {key}, !.waiting = TRUE],
                 infos |-> t.infos, call |-> t.call]
           ELSE RunFieldsIn(nr, registry, Caught(w, t.kind, EmptyMap, NoCall),
                            t.infos, choice)

RunFields(v, infos, choice) ==
  RunFieldsIn(normalizedRules, deepRuleKeys, v, infos, choice)

\* validateField once doValidateField has settled: the callback and the
\* outcome of the call.
ShouldThrowAlways(cb) == TRUE
ShouldThrow(cb) == ~cb

ValidateFieldEnd(v) ==
  LET failed == DOMAIN v.errs # {}
      base == [DoneNone EXCEPT !.cb = v.cb, !.fields = v.fields, !.threw = v.threw,
                               !.infra = v.infra, !.maps = v.maps,
                               !.failed = v.failed, !.engine = v.engine,
                               !.absent = v.absent, !.props = v.props]
  IN  IF ~failed
      THEN [base EXCEPT !.kind = "resolved", !.value = "true",
              !.cbLog = IF v.cb THEN <<[ok |-> TRUE, map |-> EmptyMap]>> ELSE <<>>]
      ELSE [base EXCEPT
              !.kind = IF ShouldThrow(v.cb) THEN "rejected" ELSE "resolved",
              !.value = IF ShouldThrow(v.cb) THEN "map" ELSE "false",
              !.map = v.errs,
              !.cbLog = IF v.cb THEN <<[ok |-> FALSE, map |-> v.errs]>> ELSE <<>>]

(***************************************************************************)
(* The store: which watchers a write wakes.  The getter of the watcher of  *)
(* key reads `k in value` and value[k] at every level of get's walk.       *)
(***************************************************************************)
RECURSIVE DepsWalk(_, _, _, _)
DepsWalk(h, value, keys, i) ==
  IF i > Len(keys) \/ ~IsObject(h, value) THEN {}
  ELSE {<<value, keys[i]>>}
       \cup (IF keys[i] \in DOMAIN h[value]
             THEN DepsWalk(h, h[value][keys[i]], keys, i + 1) ELSE {})

Deps(h, key) == DepsWalk(h, ModelRef, Split(key), 1)

Woken(h, writes) ==
  {watchers[i] : i \in {j \in 1..Len(watchers) : Deps(h, watchers[j]) \cap writes # {}}}

\* addListeners(keys): one watcher for each key that holds no handle yet;
\* scope.run does nothing once the scope was stopped.
addListenersNoCheck(active, handles, ws, keys) ==
  IF ~active THEN [handles |-> handles, watchers |-> ws]
  ELSE [handles |-> handles \cup {keys[i] : i \in 1..Len(keys)}, watchers |-> ws \o keys]

RECURSIVE addListeners(_, _, _, _)
addListeners(active, handles, ws, keys) ==
  IF Len(keys) = 0 \/ ~active THEN [handles |-> handles, watchers |-> ws]
  ELSE IF Head(keys) \in handles THEN addListeners(active, handles, ws, Tail(keys))
  ELSE addListeners(active, handles \cup {Head(keys)}, Append(ws, Head(keys)),
                    Tail(keys))

(***************************************************************************)
(* The state after construction: useForm(model, rules, options) has taken  *)
(* the snapshot and run updateRules for the first time.                    *)
(***************************************************************************)
NoGet == [value |-> VUndef, exist |-> FALSE, diff |-> 0, threw |-> FALSE]
TimerIdle == [pending |-> FALSE, key |-> <<>>, g |-> NoGet]
NoProbe ==
  [fn |-> "none", key |-> <<>>, res |-> NoGet, rules |-> <<>>, out |-> <<>>,
   nkc |-> EmptyMap]
Step(op, keys, kind) == [op |-> op, keys |-> keys, kind |-> kind]

\* The rules of the form: n is required, e has a custom validator, u is an
\* object whose field n is required.
FormRules ==
  << [key |-> kN, value |-> One(RequiredRule("n?"))],
     [key |-> kE, value |-> One(CustomRule("e!"))],
     [key |-> kU, value |-> One(ObjectRule([s \in {kN} |-> <<RequiredRule("u.n?")>>]))] >>

\* The model { e: '', u: { n: '' } }, with n: '' or without the key n, and
\* its snapshot (cloneDeep copies the nested object).
RootObject(withN) ==
  [s \in (IF withN THEN {kN} ELSE {}) \cup {kE, kU} |->
     IF s = kU THEN ModelU ELSE ""]

FormHeap(withN) ==
  [r \in {ModelRef, ModelU, InitialRef, InitialU} |->
     CASE r = ModelRef -> RootObject(withN)
       [] r = InitialRef -> [RootObject(withN) EXCEPT ![kU] = InitialU]
       [] OTHER -> [s \in {kN} |-> ""]]

normalizeRules(source) ==
  [k \in {normalizeKey(source[i].key) : i \in 1..Len(source)} |->
     LET i == CHOOSE j \in 1..Len(source) :
                 normalizeKey(source[j].key) = k
                 /\ \A m \in (j + 1)..Len(source) : normalizeKey(source[m].key) # k
     IN  ToArray(source[i].value)]

InitForm(h, opts, source) ==
  /\ heap = h
  /\ options = opts
  /\ ruleSource = source
  /\ normalizedRules = normalizeRules(source)
  /\ deepRuleKeys = EmptyMap
  /\ watchHandles = DOMAIN normalizeRules(source)
  /\ watchers = addListeners(TRUE, {}, <<>>,
                   [i \in 1..Len(source) |-> normalizeKey(source[i].key)]).watchers
  /\ validateInfos = [k \in DOMAIN normalizeRules(source) |->
                        [required |-> isRequired(normalizeRules(source)[k])]]
  /\ scopeActive = TRUE
  /\ timer = TimerIdle
  /\ jobs = {}
  /\ ticks = 0
  /\ inflight = {}
  /\ vf = VfIdle
  /\ done = DoneNone
  /\ last = Step("init", {}, "")
  /\ ops = 0
  /\ probe = NoProbe
  /\ resetRun = FALSE

(***************************************************************************)
(* The caller's operations.                                                *)
(***************************************************************************)
\* model.<path> = v, a write through the reactive model that changes the
\* value (a write of the same value wakes nothing).
SetField(path, v) ==
  LET segs == Split(path)
      seg == segs[Len(segs)]
      up == IF Len(segs) = 1 THEN ModelRef
            ELSE Get(heap, ModelRef, Join(SubSeq(segs, 1, Len(segs) - 1))).value
  IN  /\ ops < MaxOps
      /\ IF Len(segs) = 1 THEN TRUE
         ELSE Present(heap, Join(SubSeq(segs, 1, Len(segs) - 1)))
      /\ IsObject(heap, up)
      /\ IF seg \in DOMAIN heap[up] THEN heap[up][seg] # v ELSE TRUE
      /\ heap' = [heap EXCEPT ![up] = Put(@, seg, v)]
      /\ jobs' = jobs \cup Woken(heap, {<<up, seg>>})
      /\ last' = Step("set", {path}, v)
      /\ ops' = ops + 1
      /\ resetRun' = FALSE
      /\ UNCHANGED <<options, ruleSource, normalizedRules, deepRuleKeys, watchHandles,
                     watchers, validateInfos, scopeActive, timer, ticks, inflight,
                     vf, done, probe>>

\* The get trap of validationState runs the deep resolution for key.
NeedsResolutionNoRegistry(key) ==
  /\ key \notin DOMAIN validateInfos
  /\ \E i \in 1..Len(key) : key[i] = "."
  /\ options.deepRule

NeedsResolutionAnyMode(key) ==
  /\ key \notin DOMAIN validateInfos
  /\ \E i \in 1..Len(key) : key[i] = "."
  /\ key \notin DOMAIN deepRuleKeys

NeedsResolution(key) ==
  /\ key \notin DOMAIN validateInfos
  /\ \E i \in 1..Len(key) : key[i] = "."
  /\ options.deepRule
  /\ key \notin DOMAIN deepRuleKeys

\* validationState[p]: the get trap of the proxy.
ProxyGet(p) ==
  LET key == normalizeKey(p)
      fresh == NeedsResolution(key)
      deepRules == getRuleByDeepRule(key, normalizedRules)
      listen == addListeners(scopeActive, watchHandles, watchers, <<key>>)
  IN  /\ resetRun' = FALSE
      /\ last' = Step("read", {key}, IF fresh THEN "resolved" ELSE "read")
      /\ IF fresh /\ Len(deepRules) > 0
         THEN /\ validateInfos' = Put(validateInfos, key, [required |-> isRequired(deepRules)])
              /\ deepRuleKeys' = Put(deepRuleKeys, key, TRUE)
              /\ normalizedRules' = Put(normalizedRules, key, deepRules)
              /\ watchHandles' = listen.handles
              /\ watchers' = listen.watchers
         ELSE /\ deepRuleKeys' = IF fresh THEN Put(deepRuleKeys, key, FALSE)
                                 ELSE deepRuleKeys
              /\ UNCHANGED <<validateInfos, normalizedRules, watchHandles, watchers>>
      /\ UNCHANGED <<heap, options, ruleSource, scopeActive, timer, jobs, ticks,
                     inflight, vf, done, probe>>

\* A read of validationState[p] counted as one of the caller's operations.
ReadState(p) ==
  /\ ops < MaxOps
  /\ ops' = ops + 1
  /\ ProxyGet(p)

\* validateField(props, callback) up to its first RuleEngine call; validate
\* (callback) is validateField(undefined, callback).
ValidateField(props, cb, choice) ==
  LET fields == obtainValidateFields(props)
      run == RunFields([VfIdle EXCEPT !.active = TRUE, !.fields = fields,
                                      !.idx = 1, !.cb = cb, !.props = props],
                       validateInfos, choice)
  IN  /\ ops < MaxOps
      /\ ~vf.active
      /\ ops' = ops + 1
      /\ resetRun' = FALSE
      /\ validateInfos' = run.infos
      /\ IF run.pending
         THEN /\ vf' = run.vf
              /\ inflight' = inflight \cup {run.call}
              /\ done' = DoneNone
              /\ last' = Step("validateField", {run.call.key} \cup run.call.deepKeys,
                              "pending")
         ELSE /\ vf' = VfIdle
              /\ inflight' = inflight
              /\ done' = ValidateFieldEnd(run.vf)
              /\ last' = Step("validateField", {}, "done")
      /\ UNCHANGED <<heap, options, ruleSource, normalizedRules, deepRuleKeys,
                     watchHandles, watchers, scopeActive, timer, jobs, ticks, probe>>

\* clearValidate(props); setValidateInfo throws a TypeError at the first
\* field that has rules and no validation info.
clearValidateAll(infos, props) == setValidateInfo(infos, DOMAIN infos, InfoCleared)
clearValidate(infos, props) ==
  LET fields == obtainValidateFields(props)
      named == {fields[i] : i \in 1..Len(fields)}
      deep == {k \in DeepKeysValid : \E f \in named : StartsWith(k, f) /\ k # f}
  IN  setValidateInfo(infos, named \cup deep, InfoCleared)

\* resetFields(newModel): Object.assign(model, initialModel, newModel)
\* assigns the snapshot's top-level values one by one, then those of
\* newModel (the keys of K, each with the value v; K is empty when no
\* argument is passed); nextTick queues clearValidate.
ResetFields(K, v) ==
  LET snap == heap[InitialRef]
      mid == Assign(heap[ModelRef], snap)
      changed == {s \in DOMAIN snap :
                    s \notin DOMAIN heap[ModelRef] \/ heap[ModelRef][s] # snap[s]}
                 \cup {s \in K : s \notin DOMAIN mid \/ mid[s] # v}
  IN  /\ ops < MaxOps
      /\ ops' = ops + 1
      /\ heap' = [heap EXCEPT ![ModelRef] = Assign(mid, [s \in K |-> v])]
      /\ jobs' = jobs \cup Woken(heap, {<<ModelRef, s>> : s \in changed})
      /\ ticks' = ticks + 1
      /\ resetRun' = (jobs = {} /\ inflight = {} /\ ticks = 0 /\ ~timer.pending
                        /\ ~vf.active)
      /\ last' = Step("reset", K, v)
      /\ UNCHANGED <<options, ruleSource, normalizedRules, deepRuleKeys, watchHandles,
                     watchers, validateInfos, scopeActive, timer, inflight, vf,
                     done, probe>>

\* dispose(): the scope stops (its watchers with it), the handles are
\* called and dropped.  The timer of the debounced function is left alone.
DisposeScopeOnly ==
  /\ ops < MaxOps
  /\ ops' = ops + 1
  /\ scopeActive' = FALSE
  /\ resetRun' = FALSE
  /\ last' = Step("dispose", {}, "")
  /\ UNCHANGED <<heap, options, ruleSource, normalizedRules, deepRuleKeys,
                 validateInfos, timer, ticks, inflight, vf, done, probe, watchers,
                 watchHandles, jobs>>

Dispose ==
  /\ ops < MaxOps
  /\ ops' = ops + 1
  /\ scopeActive' = FALSE
  /\ watchers' = <<>>
  /\ watchHandles' = {}
  /\ jobs' = {}
  /\ resetRun' = FALSE
  /\ last' = Step("dispose", {}, "")
  /\ UNCHANGED <<heap, options, ruleSource, normalizedRules, deepRuleKeys,
                 validateInfos, timer, ticks, inflight, vf, done, probe>>

\* delete model.<path>: the key is removed from its parent object.
DeleteField(path) ==
  LET segs == Split(path)
      seg == segs[Len(segs)]
      up == IF Len(segs) = 1 THEN ModelRef
            ELSE Get(heap, ModelRef, Join(SubSeq(segs, 1, Len(segs) - 1))).value
  IN  /\ ops < MaxOps
      /\ Present(heap, path)
      /\ heap' = [heap EXCEPT ![up] = [x \in (DOMAIN @) \ {seg} |-> @[x]]]
      /\ jobs' = jobs \cup Woken(heap, {<<up, seg>>})
      /\ last' = Step("delete", {path}, "")
      /\ ops' = ops + 1
      /\ resetRun' = FALSE
      /\ UNCHANGED <<options, ruleSource, normalizedRules, deepRuleKeys, watchHandles,
                     watchers, validateInfos, scopeActive, timer, ticks, inflight,
                     vf, done, probe>>

\* clearValidate(props) called by the user of the form.
ClearValidate(props) ==
  /\ ops < MaxOps
  /\ ops' = ops + 1
  /\ resetRun' = FALSE
  /\ \E fields \in {obtainValidateFields(props)} :
     \E bad \in {{i \in 1..Len(fields) : fields[i] \notin DOMAIN validateInfos}} :
       IF bad = {}
       THEN /\ validateInfos' = clearValidate(validateInfos, props)
            /\ last' = Step("clearValidate",
                            {normalizeKey(props.keys[i]) : i \in 1..Len(props.keys)}, "")
       ELSE /\ validateInfos' =
                 setValidateInfo(validateInfos,
                                 {fields[i] : i \in {j \in 1..Len(fields) :
                                                      \A b \in bad : j < b}},
                                 InfoCleared)
            /\ last' = Step("clearValidate",
                            {normalizeKey(props.keys[i]) : i \in 1..Len(props.keys)},
                            "threw")
  /\ UNCHANGED <<heap, options, ruleSource, normalizedRules, deepRuleKeys,
                 watchHandles, watchers, scopeActive, timer, jobs, ticks, inflight,
                 vf, done, probe>>

\* The part of the validator that clearDeepInfo and updateRules rewrite.
Tracking ==
  [infos |-> validateInfos, registry |-> deepRuleKeys, handles |-> watchHandles,
   watchers |-> watchers, rules |-> normalizedRules, jobs |-> jobs,
   threw |-> FALSE]

Without(m, k) == [x \in (DOMAIN m) \ {k} |-> m[x]]

\* The guard of clearDeepInfo on the result of get.
ShouldClearDeepNever(g, strict) == FALSE
ShouldClearDeepOnlyStrict(g, strict) == ~g.exist /\ strict
ShouldClearDeep(g, strict) == ~g.exist /\ (strict \/ g.diff # 0)

clearDeepInfoKeepsRule(t, key, strict) ==
  LET g == Get(heap, ModelRef, key)
  IN  IF t.threw THEN t
      ELSE IF g.threw THEN [t EXCEPT !.threw = TRUE]
      ELSE IF ShouldClearDeep(g, strict)
      THEN [t EXCEPT !.infos = Without(@, key),
                     !.registry = Without(@, key),
                     !.handles = @ \ {key},
                     !.watchers = SelectSeq(@, LAMBDA k : k # key),
                     !.jobs = @ \ {key}]
      ELSE t

\* clearDeepInfo(key, strict) on the tracking t; get throws a TypeError
\* when the walk meets a value that is not an object, and the call
\* this.watchHandles[key]() throws one when the key holds no handle (the
\* info and the registry entry are gone by then, the rules are not).
clearDeepInfo(t, key, strict) ==
  LET g == Get(heap, ModelRef, key)
  IN  IF t.threw THEN t
      ELSE IF g.threw THEN [t EXCEPT !.threw = TRUE]
      ELSE IF ShouldClearDeep(g, strict) /\ key \notin t.handles
      THEN [t EXCEPT !.infos = Without(@, key),
                     !.registry = Without(@, key),
                     !.threw = TRUE]
      ELSE IF ShouldClearDeep(g, strict)
      THEN [t EXCEPT !.infos = Without(@, key),
                     !.registry = Without(@, key),
                     !.handles = @ \ {key},
                     !.watchers = SelectSeq(@, LAMBDA k : k # key),
                     !.jobs = @ \ {key},
                     !.rules = Without(@, key)]
      ELSE t

\* The deep keys clearDeepValidation(props) hands to clearDeepInfo, in
\* order: the given keys that the registry marks true, or with no key
\* given every key the registry marks true.
DeepTargets(props) ==
  LET keys == [i \in 1..Len(props.keys) |-> normalizeKey(props.keys[i])]
  IN  IF Len(keys) > 0
      THEN SelectSeq(keys, LAMBDA k : k \in DeepKeysValid)
      ELSE SetToSeq(DeepKeysValid)

RECURSIVE ClearDeepFrom(_, _, _, _)
ClearDeepFrom(t, keys, i, strict) ==
  IF i > Len(keys) THEN t
  ELSE ClearDeepFrom(clearDeepInfo(t, keys[i], strict), keys, i + 1, strict)

\* clearDeepValidation(props, strict).
ClearDeepValidation(props, strict) ==
  LET t == IF options.deepRule
           THEN ClearDeepFrom(Tracking, DeepTargets(props), 1, strict)
           ELSE Tracking
  IN  /\ ops < MaxOps
      /\ ops' = ops + 1
      /\ resetRun' = FALSE
      /\ validateInfos' = t.infos
      /\ deepRuleKeys' = t.registry
      /\ watchHandles' = t.handles
      /\ watchers' = t.watchers
      /\ jobs' = t.jobs
      /\ normalizedRules' = t.rules
      /\ last' = Step("clearDeep",
                      {normalizeKey(props.keys[i]) : i \in 1..Len(props.keys)},
                      IF t.threw THEN "threw"
                      ELSE IF t.registry # deepRuleKeys THEN "removed" ELSE "kept")
      /\ UNCHANGED <<heap, options, ruleSource, scopeActive, timer, ticks, inflight,
                     vf, done, probe>>

\* FormValidator.updateRules(rules, isFirst, validateField) up to the call
\* of validateField: the tracking for the rule source.
updateRulesNoReconcile(t, source) ==
  [t EXCEPT !.registry = EmptyMap, !.rules = normalizeRules(source)]

updateRules(t, source) ==
  LET newRules == normalizeRules(source)
      keys == [i \in 1..Len(source) |-> normalizeKey(source[i].key)]
      kept == t.handles \cap DOMAIN newRules
      gone == t.handles \ DOMAIN newRules
      listen == addListeners(scopeActive, kept,
                             SelectSeq(t.watchers, LAMBDA k : k \notin gone),
                             SelectSeq(keys, LAMBDA k : k \notin t.handles))
  IN  [t EXCEPT
         !.registry = EmptyMap,
         !.rules = newRules,
         !.handles = listen.handles,
         !.watchers = listen.watchers,
         !.jobs = @ \ gone,
         !.infos = [k \in ((DOMAIN @) \ gone) \cup DOMAIN newRules |->
                      IF k \notin DOMAIN newRules THEN @[k]
                      ELSE IF k \in t.handles /\ k \in DOMAIN @
                      THEN Assign(@[k], [required |-> isRequired(newRules[k])])
                      ELSE [required |-> isRequired(newRules[k])]]]

\* The last statement of updateRules: validateField() is called unless this
\* is the first call.
ShouldRevalidateAlways(isFirst) == ~isFirst
ShouldRevalidate(isFirst) == ~isFirst /\ options.validateOnRuleChange

\* The rule source changes and the watcher of useForm runs updateRules;
\* with validateOnRuleChange updateRules ends by calling validateField(),
\* whose rejection the caller swallows.
UpdateRules(source, choice) ==
  \E t \in {updateRules(Tracking, source)}, validating \in {ShouldRevalidate(FALSE)} :
  \E fields \in {RuleKeyOrderIn(source, t.rules)} :
  \E run \in {IF validating
               THEN RunFieldsIn(t.rules, t.registry,
                                [VfIdle EXCEPT !.active = TRUE, !.idx = 1,
                                               !.fields = fields],
                                t.infos, choice)
               ELSE [pending |-> FALSE, vf |-> vf, infos |-> t.infos, call |-> NoCall]} :
      /\ ops < MaxOps
      /\ scopeActive
      /\ source # ruleSource
      /\ validating => ~vf.active
      /\ ops' = ops + 1
      /\ resetRun' = FALSE
      /\ ruleSource' = source
      /\ deepRuleKeys' = t.registry
      /\ watchHandles' = t.handles
      /\ watchers' = t.watchers
      /\ jobs' = t.jobs
      /\ normalizedRules' = t.rules
      /\ validateInfos' = run.infos
      /\ inflight' = IF run.pending THEN inflight \cup {run.call} ELSE inflight
      /\ vf' = IF ~validating THEN vf
               ELSE IF run.pending THEN run.vf ELSE VfIdle
      /\ done' = IF validating
                 THEN (IF run.pending THEN DoneNone ELSE ValidateFieldEnd(run.vf))
                 ELSE done
      /\ last' = Step("rules",
                      IF validating THEN {fields[i] : i \in 1..Len(fields)} ELSE {},
                      IF validating THEN "validate" ELSE "")
      /\ UNCHANGED <<heap, options, scopeActive, timer, ticks, probe>>

(***************************************************************************)
(* The steps the runtime takes.                                            *)
(***************************************************************************)
\* The scheduler runs the queued watcher jobs in the order the watchers
\* were created.  A job evaluates the getter again and hands the result to
\* the callback of addListeners: the debounced function if there is one,
\* else triggerValidate(key, value).catch(() => {}).
RECURSIVE FlushFrom(_, _, _, _, _)
FlushFrom(i, infos, tm, calls, choice) ==
  IF i > Len(watchers) THEN [infos |-> infos, timer |-> tm, calls |-> calls]
  ELSE LET key == watchers[i]
           g == Get(heap, ModelRef, key)
           t == TriggerStart(infos, key, g, "bg", choice)
       IN  IF key \notin jobs \/ g.threw
           THEN FlushFrom(i + 1, infos, tm, calls, choice)
           ELSE IF options.debounce
           THEN FlushFrom(i + 1, infos, [pending |-> TRUE, key |-> key, g |-> g],
                          calls, choice)
           ELSE FlushFrom(i + 1, t.infos, tm,
                          IF t.kind = "pending" THEN calls \cup {t.call} ELSE calls,
                          choice)

Flush(choice) ==
  LET r == FlushFrom(1, validateInfos, timer, inflight, choice)
  IN  /\ jobs # {}
      /\ jobs' = {}
      /\ validateInfos' = r.infos
      /\ timer' = r.timer
      /\ inflight' = r.calls
      /\ last' = Step("flush", jobs, "")
      /\ UNCHANGED <<heap, options, ruleSource, normalizedRules, deepRuleKeys,
                     watchHandles, watchers, scopeActive, ticks, vf, done, ops,
                     probe, resetRun>>

\* The timer of the debounced function fires: fn(...args) with the
\* arguments of the call that set it.
TimerFire(choice) ==
  LET t == TriggerStart(validateInfos, timer.key, timer.g, "bg", choice)
  IN  /\ timer.pending
      /\ timer' = TimerIdle
      /\ validateInfos' = t.infos
      /\ inflight' = IF t.kind = "pending" THEN inflight \cup {t.call} ELSE inflight
      /\ last' = Step("timer", {timer.key}, t.kind)
      /\ UNCHANGED <<heap, options, ruleSource, normalizedRules, deepRuleKeys,
                     watchHandles, watchers, scopeActive, jobs, ticks, vf, done,
                     ops, probe, resetRun>>

\* The nextTick callback of resetFields; nextTick waits for the pending
\* flush of the scheduler.
DeferredClear ==
  /\ ticks > 0
  /\ jobs = {}
  /\ ticks' = ticks - 1
  /\ validateInfos' = clearValidate(validateInfos, NoProps)
  /\ last' = Step("clear", {}, "")
  /\ UNCHANGED <<heap, options, ruleSource, normalizedRules, deepRuleKeys,
                 watchHandles, watchers, scopeActive, timer, jobs, inflight, vf,
                 done, ops, probe, resetRun>>

SettleCancelsSuperseded(call) ==
  LET r == TriggerSettle(validateInfos, call)
  IN  /\ call \in inflight
      /\ inflight' = {c \in inflight : c.key # call.key}
      /\ validateInfos' = r.infos
      /\ vf' = IF call.owner = "vf" THEN Caught(vf, r.kind, r.fields, call) ELSE vf
      /\ last' = Step("settle", {call.key} \cup call.deepKeys, r.kind)
      /\ UNCHANGED <<heap, options, ruleSource, normalizedRules, deepRuleKeys,
                     watchHandles, watchers, scopeActive, timer, jobs, ticks, done,
                     ops, probe, resetRun>>

\* A RuleEngine call settles: the then/catch handlers of triggerValidate
\* run; the promise of a watcher's or the timer's call ends in its
\* catch(() => {}), that of doValidateField's call in the loop's await.
Settle(call) ==
  LET r == TriggerSettle(validateInfos, call)
  IN  /\ call \in inflight
      /\ inflight' = inflight \ {call}
      /\ validateInfos' = r.infos
      /\ vf' = IF call.owner = "vf" THEN Caught(vf, r.kind, r.fields, call) ELSE vf
      /\ last' = Step("settle", {call.key} \cup call.deepKeys, r.kind)
      /\ UNCHANGED <<heap, options, ruleSource, normalizedRules, deepRuleKeys,
                     watchHandles, watchers, scopeActive, timer, jobs, ticks, done,
                     ops, probe, resetRun>>

\* doValidateField goes on after an await: the next fields, up to the next
\* RuleEngine call or to the end of validateField.
Continue(choice) ==
  LET run == RunFields(vf, validateInfos, choice)
  IN  /\ vf.active
      /\ ~vf.waiting
      /\ validateInfos' = run.infos
      /\ IF run.pending
         THEN /\ vf' = run.vf
              /\ inflight' = inflight \cup {run.call}
              /\ done' = done
              /\ last' = Step("continue", {run.call.key} \cup run.call.deepKeys,
                              "pending")
         ELSE /\ vf' = VfIdle
              /\ inflight' = inflight
              /\ done' = ValidateFieldEnd(run.vf)
              /\ last' = Step("continue", {}, "done")
      /\ UNCHANGED <<heap, options, ruleSource, normalizedRules, deepRuleKeys,
                     watchHandles, watchers, scopeActive, timer, jobs, ticks, ops,
                     probe, resetRun>>

(***************************************************************************)
(* The specifications.  Spec: a form that is validated by hand (strict     *)
(* or not, deep rules or not, with or without the key n in the model).     *)
(***************************************************************************)
Strings == {"", "x"}
EngineChoices == {"pass", "fail", "throw"}
Lists ==
  {NoProps, Props(<<kN>>), Props(<<kE>>), Props(<<kE, kN>>),
   Props(<<<<"u", "[", "n", "]">>>>), Props(<<<<"z">>>>)}

Init ==
  \E withN \in BOOLEAN, strict \in BOOLEAN, deep \in BOOLEAN :
    InitForm(FormHeap(withN),
             [strict |-> strict, deepRule |-> deep, debounce |-> FALSE,
              validateOnRuleChange |-> FALSE],
             FormRules)

Next ==
  \/ \E v \in Strings : SetField(kUN, v)
  \/ ReadState(kUN)
  \/ \E props \in Lists, cb \in BOOLEAN, choice \in EngineChoices :
       ValidateField(props, cb, choice)
  \/ \E choice \in EngineChoices : Flush(choice)
  \/ \E call \in inflight : Settle(call)
  \/ \E choice \in EngineChoices : Continue(choice)

Spec == Init /\ [][Next]_vars

(***************************************************************************)
(* SpecDebounce: a form with debounceMs > 0 whose fields n and e change,   *)
(* and which may be disposed.                                              *)
(***************************************************************************)
InitDebounce ==
  InitForm(FormHeap(TRUE),
           [strict |-> FALSE, deepRule |-> FALSE, debounce |-> TRUE,
            validateOnRuleChange |-> FALSE],
           FormRules)

NextDebounce ==
  \/ \E path \in {kN, kE}, v \in Strings : SetField(path, v)
  \/ \E cb \in BOOLEAN, choice \in EngineChoices : ValidateField(Props(<<kN>>), cb, choice)
  \/ Dispose
  \/ \E choice \in EngineChoices : Flush(choice)
  \/ \E choice \in EngineChoices : TimerFire(choice)
  \/ \E call \in inflight : Settle(call)
  \/ \E choice \in EngineChoices : Continue(choice)

SpecDebounce == InitDebounce /\ [][NextDebounce]_vars

(***************************************************************************)
(* SpecReset: a form whose fields change and which is reset.               *)
(***************************************************************************)
InitReset ==
  \E deep \in BOOLEAN :
    InitForm(FormHeap(TRUE),
             [strict |-> FALSE, deepRule |-> deep, debounce |-> FALSE,
              validateOnRuleChange |-> FALSE],
             FormRules)

NextReset ==
  \/ \E path \in {kN, kE, kUN}, v \in Strings : SetField(path, v)
  \/ ResetFields({}, "")
  \/ \E choice \in EngineChoices : Flush(choice)
  \/ DeferredClear
  \/ \E call \in inflight : Settle(call)

SpecReset == InitReset /\ [][NextReset]_vars

(***************************************************************************)
(* SpecOverride: a form that is reset with and without an override, after  *)
(* changes of a snapshot field (n) and of a field added later (p).         *)
(***************************************************************************)
InitOverride ==
  InitForm(FormHeap(TRUE),
           [strict |-> FALSE, deepRule |-> FALSE, debounce |-> FALSE,
            validateOnRuleChange |-> FALSE],
           FormRules)

NextOverride ==
  \/ \E path \in {kN, kP} : SetField(path, "x")
  \/ \E K \in {{}, {kE}, {kE, kP}} : ResetFields(K, "y")
  \/ \E choice \in EngineChoices : Flush(choice)
  \/ DeferredClear
  \/ \E call \in inflight : Settle(call)

SpecOverride == InitOverride /\ [][NextOverride]_vars

(***************************************************************************)
(* SpecDeep: a form with deep rules on, where the fields u and un hold the *)
(* same object { n: '' } and have object rules.  The view reads the deep   *)
(* paths u.n and un.n; the object is removed from the model and put back;  *)
(* the validation state is cleared with clearValidate and                  *)
(* clearDeepValidation.                                                    *)
(***************************************************************************)
DeepRules ==
  << [key |-> kU, value |-> One(ObjectRule([s \in {kN} |-> <<RequiredRule("u.n?")>>]))],
     [key |-> kUn, value |-> One(ObjectRule([s \in {kN} |-> <<RequiredRule("un.n?")>>]))] >>

DeepHeap ==
  [FormHeap(TRUE) EXCEPT ![ModelRef] = Put(Without(@, kE), kUn, ModelU),
                         ![InitialRef] = Put(Without(@, kE), kUn, InitialU)]

InitDeep ==
  InitForm(DeepHeap,
           [strict |-> FALSE, deepRule |-> TRUE, debounce |-> FALSE,
            validateOnRuleChange |-> FALSE],
           DeepRules)

NextDeep ==
  \/ \E p \in {kUN, kUnN} : ProxyGet(p) /\ UNCHANGED ops
  \/ \E path \in {kU, kUN} : DeleteField(path)
  \/ SetField(kU, ModelU)
  \/ ValidateField(Props(<<kUn>>), FALSE, "pass")
  \/ \E props \in {NoProps, Props(<<kU>>)} : ClearValidate(props)
  \/ \E props \in {NoProps, Props(<<kU>>), Props(<<kUN>>)}, strict \in BOOLEAN :
       ClearDeepValidation(props, strict)
  \/ Flush("pass")
  \/ \E call \in inflight : Settle(call)
  \/ Continue("pass")

SpecDeep == InitDeep /\ [][NextDeep]_vars

(***************************************************************************)
(* SpecDisposed: the form of SpecDeep, which is disposed at some point;    *)
(* the deep path u.n is read, the data of u is deleted, and clearValidate  *)
(* and clearDeepValidation are called.                                     *)
(***************************************************************************)
NextDisposed ==
  \/ ProxyGet(kUN) /\ UNCHANGED ops
  \/ DeleteField(kU)
  \/ Dispose
  \/ \E props \in {NoProps, Props(<<kU>>), Props(<<kUN>>)} : ClearValidate(props)
  \/ \E props \in {NoProps, Props(<<kUN>>)}, strict \in BOOLEAN :
       ClearDeepValidation(props, strict)
  \/ Flush("pass")
  \/ \E call \in inflight : Settle(call)

SpecDisposed == InitDeep /\ [][NextDisposed]_vars

(***************************************************************************)
(* SpecResolve: getRuleByDeepRule applied to the keys of ResolveKeys on    *)
(* the rule indexes of the sources of ResolveSources: i has no rule, an    *)
(* array rule whose defaultField is an object with the field n, an array   *)
(* rule whose defaultField is a plain rule, or a plain rule; u has no      *)
(* rule, an object rule with the field n, or one whose field n is an       *)
(* object with the field p; u.n is declared with a rule of its own or not. *)
(***************************************************************************)
kI == <<"i">>
kI0N == Dot(Dot(kI, <<"0">>), kN)

NameRule == RequiredRule("name?")

ResolveSources ==
  {SelectSeq(<< [key |-> kI, value |-> i], [key |-> kU, value |-> u],
                [key |-> kUN, value |-> un] >>,
             LAMBDA e : e.value.kind # "absent") :
     i \in {[kind |-> "absent"],
            One(ArrayRule(<<ObjectRule([s \in {kN} |-> <<NameRule>>])>>)),
            One(ArrayRule(<<NameRule>>)),
            One(NameRule)},
     u \in {[kind |-> "absent"],
            One(ObjectRule([s \in {kN} |-> <<NameRule>>])),
            One(ObjectRule([s \in {kN} |->
                  <<ObjectRule([t \in {kP} |-> <<CustomRule("p!")>>])>>]))},
     un \in {[kind |-> "absent"], One(CustomRule("un!"))}}

ResolveKeys == {kI0N, Dot(kI, <<"0">>), kUN, kUNP, Dot(kU, kP), kN}

InitResolve == \E source \in ResolveSources :
  InitForm(FormHeap(TRUE), [strict |-> FALSE, deepRule |-> TRUE, debounce |-> FALSE,
                            validateOnRuleChange |-> FALSE], source)

ResolveProbe(key) ==
  /\ probe' = [NoProbe EXCEPT !.fn = "resolve", !.key = key,
                               !.rules = getRuleByDeepRule(key, normalizedRules)]
  /\ UNCHANGED <<heap, options, ruleSource, normalizedRules, deepRuleKeys, watchHandles,
                 watchers, validateInfos, scopeActive, timer, jobs, ticks, inflight,
                 vf, done, last, ops, resetRun>>

NextResolve == \E key \in ResolveKeys : ResolveProbe(key)

SpecResolve == InitResolve /\ [][NextResolve]_vars

(***************************************************************************)
(* SpecNormalize: normalizeKey(key, nkc) applied again and again to the    *)
(* raw keys of NormalizeInputs, strings and arrays of segments, with one   *)
(* cache object nkc that starts empty (probe.nkc holds its own             *)
(* properties).                                                            *)
(***************************************************************************)
NormalizeInputs ==
  { [array |-> FALSE, segs |-> << <<"a", "[", "0", "]", ".", "b">> >>],
    [array |-> TRUE, segs |-> << <<"a">>, <<"0">>, <<"b">> >>],
    [array |-> FALSE, segs |-> << <<"a", ".", "0", ".", "b">> >>],
    [array |-> FALSE, segs |-> << <<"a", "[", "0", "]", "[", "b", "]">> >>],
    [array |-> TRUE, segs |-> << <<"a", "[", "0", "]">>, <<"b">> >>],
    [array |-> FALSE, segs |-> << <<"[", "a", "]">> >>],
    [array |-> FALSE, segs |-> << <<"a">> >>],
    [array |-> FALSE, segs |-> <<kUN>>],
    [array |-> TRUE, segs |-> <<kU, kN, kP>>] }
  \cup {[array |-> FALSE, segs |-> <<k>>] : k \in ObjectPrototype}

\* normalizeKey(key, nkc), where key is the string input.segs[1] or the
\* array input.segs: an array is joined with '.', then the cache is looked
\* up and, on a miss, filled.
NormalizeProbe(input) ==
  LET key == IF input.array THEN Join(input.segs) ELSE input.segs[1]
      hit == key \in DOMAIN probe.nkc
  IN  /\ probe' = [NoProbe EXCEPT
                     !.fn = "normalize", !.key = key,
                     !.out = IF hit THEN probe.nkc[key] ELSE normalizeKey(key),
                     !.nkc = IF hit \/ key \in ObjectPrototype THEN probe.nkc
                             ELSE Put(probe.nkc, key, normalizeKey(key))]
      /\ UNCHANGED <<heap, options, ruleSource, normalizedRules, deepRuleKeys,
                     watchHandles, watchers, validateInfos, scopeActive, timer, jobs,
                     ticks, inflight, vf, done, last, ops, resetRun>>

InitNormalize ==
  InitForm(FormHeap(TRUE), [strict |-> FALSE, deepRule |-> FALSE, debounce |-> FALSE,
                            validateOnRuleChange |-> FALSE], <<>>)

NextNormalize == \E input \in NormalizeInputs : NormalizeProbe(input)

SpecNormalize == InitNormalize /\ [][NextNormalize]_vars

(***************************************************************************)
(* SpecCascade: deep rules are on and the rule of u is an object rule      *)
(* whose field n is an object rule with the required field p; the model    *)
(* is { u: { n: { p: '' } } }.  The view reads the deep paths u.n and      *)
(* u.n.p, the paths are validated by hand, p is filled in and u is         *)
(* removed.                                                                *)
(***************************************************************************)
InitCascade ==
  \E strict \in BOOLEAN :
    InitForm([r \in {ModelRef, ModelU, "@mun"} |->
                CASE r = ModelRef -> [s \in {kU} |-> ModelU]
                  [] r = ModelU -> [s \in {kN} |-> "@mun"]
                  [] OTHER -> [s \in {kP} |-> ""]],
             [strict |-> strict, deepRule |-> TRUE, debounce |-> FALSE,
              validateOnRuleChange |-> FALSE],
             << [key |-> kU,
                 value |-> One(ObjectRule([s \in {kN} |->
                             <<ObjectRule([t \in {kP} |-> <<RequiredRule("p?")>>])>>]))] >>)

NextCascade ==
  \/ \E p \in {kUN, kUNP} : ProxyGet(p) /\ UNCHANGED ops
  \/ SetField(kUNP, "x")
  \/ DeleteField(kU)
  \/ \E key \in {kU, kUN, kUNP} : ValidateField(Props(<<key>>), FALSE, "pass")
  \/ Flush("pass")
  \/ \E call \in inflight : Settle(call)
  \/ Continue("pass")

SpecCascade == InitCascade /\ [][NextCascade]_vars

(***************************************************************************)
(* SpecRules: deep rules and validateOnRuleChange are on or off, the rule   *)
(* source starts as { u: object rule } and is replaced by the sources of   *)
(* RuleSources; the view reads the deep paths u.n (the rule of u reaches   *)
(* it) and u.n.p (no rule reaches it).                                     *)
(***************************************************************************)
RuleSources ==
  { << [key |-> kU, value |-> One(ObjectRule([s \in {kN} |-> <<RequiredRule("u.n?")>>]))] >>,
    << [key |-> kU, value |-> One(ObjectRule([s \in {kN} |-> <<RequiredRule("u.n?")>>]))],
       [key |-> kN, value |-> One(RequiredRule("n?"))] >>,
    << [key |-> kN, value |-> One(NoRule)],
       [key |-> <<"[", "n", "]">>, value |-> One(RequiredRule("n?"))] >>,
    << [key |-> kU, value |-> One(RequiredRule("u?"))] >>,
    << [key |-> kN, value |-> [kind |-> "many",
                               rules |-> <<NoRule, RequiredRule("n?")>>]],
       [key |-> kE, value |-> [kind |-> "absent"]] >> }

InitRules ==
  \E deep \in BOOLEAN, onChange \in BOOLEAN :
    InitForm(FormHeap(TRUE),
             [strict |-> FALSE, deepRule |-> deep, debounce |-> FALSE,
              validateOnRuleChange |-> onChange],
             << [key |-> kU,
                 value |-> One(ObjectRule([s \in {kN} |-> <<RequiredRule("u.n?")>>]))] >>)

NextRules ==
  \/ \E p \in {kUN, kUNP} : ProxyGet(p) /\ UNCHANGED ops
  \/ \E source \in RuleSources : UpdateRules(source, "pass")
  \/ SetField(kN, "x")
  \/ DeleteField(kU)
  \/ ClearDeepValidation(Props(<<kUN>>), FALSE)
  \/ Flush("pass")
  \/ \E call \in inflight : Settle(call)
  \/ Continue("pass")

SpecRules == InitRules /\ [][NextRules]_vars

(***************************************************************************)
(* SpecGet: get applied to the keys of GetKeys on the objects of GetHeaps. *)
(***************************************************************************)
GetKeys == {kN, kU, kUN, kUNP, kEUN}

GetHeaps ==
  {[r \in {ModelRef, ModelU} |->
      IF r = ModelRef
      THEN [s \in (IF n = "absent" THEN {} ELSE {kN})
                  \cup (IF u = "absent" THEN {} ELSE {kU}) |->
              IF s = kN THEN n ELSE u]
      ELSE [s \in (IF un = "absent" THEN {} ELSE {kN}) |-> un]] :
     n \in {"absent", ""},
     u \in {"absent", VUndef, VNull, "x", ModelU},
     un \in {"absent", VUndef, "x"}}

InitGet == \E h \in GetHeaps :
  InitForm(h, [strict |-> FALSE, deepRule |-> FALSE, debounce |-> FALSE,
               validateOnRuleChange |-> FALSE], <<>>)

GetProbe(key) ==
  /\ probe' = [NoProbe EXCEPT !.fn = "get", !.key = key,
                               !.res = Get(heap, ModelRef, key)]
  /\ UNCHANGED <<heap, options, ruleSource, normalizedRules, deepRuleKeys, watchHandles,
                 watchers, validateInfos, scopeActive, timer, jobs, ticks, inflight,
                 vf, done, last, ops, resetRun>>

NextGet == \E key \in GetKeys : GetProbe(key)

SpecGet == InitGet /\ [][NextGet]_vars

(***************************************************************************)
(* SpecTimer: the function debounce(fn, Delay) returns, called with the    *)
(* arguments of DebounceArgs while time passes.  probe holds the clock     *)
(* (now, in units of time), the timer timeoutId names (armed, with the     *)
(* time it is due, the arguments of the call that set it and the number    *)
(* of that call), the calls made and the runs of fn.  A timer that is due  *)
(* fires before time goes on.                                              *)
(***************************************************************************)
Delay == 2
DebounceArgs == {"a", "b"}

InitTimer ==
  /\ heap = [r \in {ModelRef} |-> EmptyMap]
  /\ options = [strict |-> FALSE, deepRule |-> FALSE, debounce |-> TRUE,
                validateOnRuleChange |-> FALSE]
  /\ ruleSource = <<>>
  /\ normalizedRules = EmptyMap
  /\ deepRuleKeys = EmptyMap
  /\ watchHandles = {}
  /\ watchers = <<>>
  /\ validateInfos = EmptyMap
  /\ scopeActive = TRUE
  /\ timer = TimerIdle
  /\ jobs = {}
  /\ ticks = 0
  /\ inflight = {}
  /\ vf = VfIdle
  /\ done = DoneNone
  /\ last = Step("init", {}, "")
  /\ ops = 0
  /\ resetRun = FALSE
  /\ probe = [fn |-> "debounce", now |-> 0,
              timeoutId |-> [armed |-> FALSE, due |-> 0, args |-> "", call |-> 0],
              calls |-> <<>>, runs |-> <<>>]

DebouncedCallKeepsDue(args) ==
  /\ Len(probe.calls) < MaxOps
  /\ probe' = [probe EXCEPT
                 !.timeoutId = [armed |-> TRUE,
                                due |-> IF @.armed THEN @.due ELSE probe.now + Delay,
                                args |-> args, call |-> Len(probe.calls) + 1],
                 !.calls = Append(@, [at |-> probe.now, args |-> args])]
  /\ UNCHANGED <<heap, options, ruleSource, normalizedRules, deepRuleKeys, watchHandles,
                 watchers, validateInfos, scopeActive, timer, jobs, ticks, inflight,
                 vf, done, last, ops, resetRun>>

\* The debounced function is called: clearTimeout(timeoutId), then
\* timeoutId = setTimeout(() => fn(...args), delay).
DebouncedCall(args) ==
  /\ Len(probe.calls) < MaxOps
  /\ probe' = [probe EXCEPT
                 !.timeoutId = [armed |-> TRUE, due |-> probe.now + Delay,
                                args |-> args, call |-> Len(probe.calls) + 1],
                 !.calls = Append(@, [at |-> probe.now, args |-> args])]
  /\ UNCHANGED <<heap, options, ruleSource, normalizedRules, deepRuleKeys, watchHandles,
                 watchers, validateInfos, scopeActive, timer, jobs, ticks, inflight,
                 vf, done, last, ops, resetRun>>

\* The timer fires: fn(...args).
TimeoutFire ==
  /\ probe.timeoutId.armed
  /\ probe.timeoutId.due = probe.now
  /\ probe' = [probe EXCEPT
                 !.timeoutId.armed = FALSE,
                 !.runs = Append(@, [at |-> probe.now, args |-> probe.timeoutId.args,
                                     call |-> probe.timeoutId.call])]
  /\ UNCHANGED <<heap, options, ruleSource, normalizedRules, deepRuleKeys, watchHandles,
                 watchers, validateInfos, scopeActive, timer, jobs, ticks, inflight,
                 vf, done, last, ops, resetRun>>

\* One unit of time passes.
Elapse ==
  /\ probe.now < MaxTime
  /\ ~(probe.timeoutId.armed /\ probe.timeoutId.due = probe.now)
  /\ probe' = [probe EXCEPT !.now = @ + 1]
  /\ UNCHANGED <<heap, options, ruleSource, normalizedRules, deepRuleKeys, watchHandles,
                 watchers, validateInfos, scopeActive, timer, jobs, ticks, inflight,
                 vf, done, last, ops, resetRun>>

NextTimer ==
  \/ \E args \in DebounceArgs : DebouncedCall(args)
  \/ TimeoutFire
  \/ Elapse

SpecTimer == InitTimer /\ [][NextTimer]_vars

(***************************************************************************)
(* The properties.                                                         *)
(***************************************************************************)
Ended == done.kind # "none"
StatusSet(keys) == {Status(validateInfos, k) : k \in keys}
PendingKeys(tm) == IF tm.pending THEN {tm.key} ELSE {}
Quiet == jobs = {} /\ ticks = 0 /\ inflight = {} /\ ~timer.pending /\ ~vf.active
Beneath(k, base) == StartsWith(k, base \o <<".">>)
Parent(k) == Join(SubSeq(Split(k), 1, Len(Split(k)) - 1))
CallerStep(op) == last'.op = op /\ ops' = ops + 1

\* C1: when validateField or validate is given a callback and the RuleEngine
\* rejects without a structured field map, the call rejects with that
\* infrastructure error: it does not resolve false, and the callback is
\* never handed the error as a field map.
C1_InfraErrorPropagates ==
  (Ended /\ done.cb /\ done.infra)
    => (done.kind = "rejected" /\ done.value = "error" /\ done.cbLog = <<>>)

\* C2: when a triggerValidate call that invoked the RuleEngine settles
\* (the engine resolved, rejected with a field map, or failed with an
\* infrastructure error), the path and its cascaded descendants have status
\* success or error, never validating.
C2_SettledNeverValidating ==
  last.op = "settle" => StatusSet(last.keys) \subseteq {"success", "error"}

\* C3: with the rule n required and a model that has no key n, validating
\* n in non-strict mode resolves true with no RuleEngine call and no error
\* recorded; in strict mode it rejects with the required message.
C3_AbsentKeyStrictness ==
  (Ended /\ ~done.cb /\ done.fields = <<kN>> /\ kN \in done.absent)
    => IF options.strict
       THEN /\ done.kind = "rejected"
            /\ kN \in DOMAIN done.map
            /\ done.map[kN] = <<"n?">>
       ELSE /\ done.kind = "resolved"
            /\ done.value = "true"
            /\ done.engine = {}
            /\ Status(validateInfos, kN) # "error"

\* C4: get reports exist = true only when every segment of the path,
\* the last one included, is present on its parent; when the final segment
\* is missing from its parent it reports exist = false.
C4_ExistMeansPresent ==
  (probe.fn = "get" /\ ~probe.res.threw /\ probe.res.exist)
    => Present(heap, probe.key)

\* C5: with debounce on, a change on one path never cancels or replaces the
\* pending validation of another path: every key handed to the debounced
\* function, and the key that was pending before, is still pending after
\* the flush.
C5_DebouncePerPath ==
  [][(last'.op = "flush" /\ jobs # {} /\ jobs' = {})
       => (PendingKeys(timer) \cup last'.keys) \subseteq PendingKeys(timer')]_vars

\* C6: after dispose(), a debounce timer that fires and a validateField or
\* validate call are no-ops: they change no validation state and invoke no
\* RuleEngine.
C6_NoopAfterDispose ==
  [][(~scopeActive /\ last'.op \in {"timer", "validateField"}
        /\ (timer' # timer \/ ops' # ops))
       => (validateInfos' = validateInfos /\ inflight' = inflight)]_vars

\* C7: validateField(paths) runs triggerValidate for every targeted path,
\* rejects with the union of the per-path failure maps, and resolves true
\* only if no targeted path failed.
C7_AggregatesEveryPath ==
  (Ended /\ ~done.cb)
    => IF done.failed = {}
       THEN done.kind = "resolved" /\ done.value = "true"
       ELSE done.kind = "rejected" /\ done.map = done.maps

\* C8: when validation fails with a structured field map, validateField
\* without a callback rejects with that map, and with a callback calls it
\* once with (false, map) and resolves false; when validation succeeds it
\* calls the callback once with true and resolves true.
C8_CallbackContract ==
  (Ended /\ ~done.threw)
    => IF done.maps = EmptyMap
       THEN /\ done.kind = "resolved"
            /\ done.value = "true"
            /\ done.cbLog = IF done.cb THEN <<[ok |-> TRUE, map |-> EmptyMap]>>
                            ELSE <<>>
       ELSE IF done.cb
       THEN /\ done.kind = "resolved"
            /\ done.value = "false"
            /\ done.cbLog = <<[ok |-> FALSE, map |-> done.maps]>>
       ELSE /\ done.kind = "rejected"
            /\ done.value = "map"
            /\ done.map = done.maps
            /\ done.cbLog = <<>>

\* A validateField call with a callback has failed with a field map.
C8_Witness ==
  /\ Ended
  /\ ~done.threw
  /\ done.cb
  /\ done.maps # EmptyMap
  /\ done.value = "false"
  /\ Len(done.cbLog) = 1

\* C9: after any mutations of the model (nested ones and ones made after
\* an earlier reset included), resetFields() with no override leaves every
\* field of the snapshot equal to its value at construction.
C9_ResetRestoresSnapshot ==
  last.op = "reset"
    => \A key \in {kN, kE, kUN} :
         Get(heap, ModelRef, key).value = Get(FormHeap(TRUE), InitialRef, key).value

\* C10: after resetFields(), once the deferred clear has run and the
\* validations fired by the reset's own changes have finished, the status
\* of every tracked field is none.
C10_StatusNoneAfterReset ==
  (resetRun /\ Quiet) => StatusSet(DOMAIN validateInfos) \subseteq {VUndef, ""}

\* C11: resetFields(override) assigns field by field: every key of the
\* override ends with the override's value, every other key of the snapshot
\* ends with its snapshot value, a key in neither is left unchanged, and no
\* other object (the snapshot included) is written.
C11_ResetAssignsFieldByField ==
  [][(last'.op = "reset" /\ ops' = ops + 1)
       => LET before == heap[ModelRef]
              after == heap'[ModelRef]
              snap == heap[InitialRef]
          IN  /\ DOMAIN after = (DOMAIN before) \cup (DOMAIN snap) \cup last'.keys
              /\ \A k \in DOMAIN after :
                   after[k] = IF k \in last'.keys THEN last'.kind
                              ELSE IF k \in DOMAIN snap THEN snap[k]
                              ELSE before[k]
              /\ DOMAIN heap' = DOMAIN heap
              /\ \A r \in (DOMAIN heap) \ {ModelRef} : heap'[r] = heap[r]]_vars

\* A reset with the override {e: 'y'} of a model whose field p was added
\* after construction and whose field n had been changed.
C11_Witness ==
  /\ last.op = "reset"
  /\ last.keys = {kE}
  /\ kP \in DOMAIN heap[ModelRef]
  /\ heap[ModelRef][kP] = "x"
  /\ heap[ModelRef][kE] = "y"
  /\ heap[ModelRef][kN] = ""
  /\ ops = 3

C14_ClearDeepCoversBasePaths ==
  [][(CallerStep("clearDeep") /\ last'.kind # "threw")
       => \A base \in last'.keys : \A k \in DeepKeysValid :
            (Beneath(k, base) /\ ~Present(heap, Parent(k)))
              => (k \notin DOMAIN deepRuleKeys' /\ k \notin DOMAIN validateInfos')]_vars

\* The rules reached from the candidates rs by walking the segments segs:
\* at each step the defaultField rules and the fields[segment] rules of
\* every candidate that is a deep rule; nothing if the candidates run out
\* before the segments do.
RECURSIVE Walk(_, _)
Walk(rs, segs) ==
  IF Len(segs) = 0 THEN rs
  ELSE IF Len(rs) = 0 THEN <<>>
  ELSE Walk(CurrentRules(rs, Head(segs)), Tail(segs))

\* C15: getRuleByDeepRule(path, ruleTable) returns, for each declared
\* prefix of path in order, the rules reached by walking the remaining
\* segments through deep rules, contributing only when the walk consumes
\* the whole path: i.0.n resolves through i (array, defaultField object
\* with fields.n) to the n rule, so its state has required = true; a walk
\* that dead-ends before the last segment contributes nothing.
C15_ResolveDeep ==
  probe.fn = "resolve"
    => LET segs == Split(probe.key)
           from(i) == LET prefix == Join(SubSeq(segs, 1, i))
                      IN  Walk(IF prefix \in DOMAIN normalizedRules
                               THEN normalizedRules[prefix] ELSE <<>>,
                               SubSeq(segs, i + 1, Len(segs)))
       IN  /\ probe.rules = Flatten([i \in 1..Len(segs) |-> from(i)])
           /\ (/\ probe.key = kI0N
               /\ kI \in DOMAIN normalizedRules
               /\ normalizedRules[kI]
                    = <<ArrayRule(<<ObjectRule([s \in {kN} |-> <<NameRule>>])>>)>>)
                => (probe.rules = <<NameRule>> /\ isRequired(probe.rules))
           /\ (/\ probe.key = kI0N
               /\ kI \in DOMAIN normalizedRules
               /\ normalizedRules[kI] \in {<<ArrayRule(<<NameRule>>)>>, <<NameRule>>})
                => probe.rules = <<>>

\* i.0.n has been resolved through the array rule of i to the rule of n.
C15_Witness ==
  /\ probe.fn = "resolve"
  /\ probe.key = kI0N
  /\ kI \in DOMAIN normalizedRules
  /\ isDeepRule(normalizedRules[kI][1])
  /\ probe.rules = <<NameRule>>

\* C16: with deep rules on, the first read of validationState at a dotted
\* path that is neither tracked nor in the registry resolves the path once:
\* a non-empty result is cached as the rules of the path, the path gets an
\* info that holds only the required flag, one watcher is added for it and
\* the registry records TRUE; an empty result only records FALSE.  Any
\* other read resolves nothing and changes nothing, and a path leaves the
\* registry only in clearDeepValidation or updateRules.
C16_FirstReadResolvesOnce ==
  [][ /\ (last'.op = "read" /\ options.deepRule) =>
           \A k \in last'.keys :
             LET first == /\ k \notin DOMAIN validateInfos
                          /\ k \notin DOMAIN deepRuleKeys
                          /\ \E i \in 1..Len(k) : k[i] = "."
                 segs == Split(k)
                 from(i) == LET prefix == Join(SubSeq(segs, 1, i))
                            IN  Walk(IF prefix \in DOMAIN normalizedRules
                                     THEN normalizedRules[prefix] ELSE <<>>,
                                     SubSeq(segs, i + 1, Len(segs)))
                 found == Flatten([i \in 1..Len(segs) |-> from(i)])
             IN  /\ (last'.kind = "resolved") <=> first
                 /\ (first /\ found # <<>>) =>
                      /\ normalizedRules' = Put(normalizedRules, k, found)
                      /\ validateInfos' = Put(validateInfos, k,
                                              [required |-> SomeRequired(found)])
                      /\ watchers' = Append(watchers, k)
                      /\ Cardinality({i \in 1..Len(watchers') : watchers'[i] = k}) = 1
                      /\ watchHandles' = watchHandles \cup {k}
                      /\ deepRuleKeys' = Put(deepRuleKeys, k, TRUE)
                 /\ (first /\ found = <<>>) =>
                      /\ deepRuleKeys' = Put(deepRuleKeys, k, FALSE)
                      /\ UNCHANGED <<normalizedRules, validateInfos, watchers,
                                     watchHandles>>
                 /\ ~first => UNCHANGED <<normalizedRules, validateInfos, watchers,
                                          watchHandles, deepRuleKeys>>
      /\ \A k \in DOMAIN deepRuleKeys :
           k \notin DOMAIN deepRuleKeys' => last'.op \in {"clearDeep", "rules"} ]_vars

\* u.n is read again after it was resolved and registered.
C16_Witness ==
  /\ last = Step("read", {kUN}, "read")
  /\ options.deepRule
  /\ kUN \in DOMAIN deepRuleKeys /\ deepRuleKeys[kUN]
  /\ kUNP \in DOMAIN deepRuleKeys /\ ~deepRuleKeys[kUNP]
  /\ validateInfos[kUN] = [required |-> TRUE]

\* C17: with deep rules off, a read of validationState at a dotted path
\* that the rule source does not declare finds no info and changes neither
\* the infos, the rule index, the registry nor the watchers.
C17_DeepOffReadsNothing ==
  [][ (last'.op = "read" /\ ~options.deepRule) =>
        \A k \in last'.keys :
          ((\E i \in 1..Len(k) : k[i] = ".") /\ k \notin DOMAIN normalizeRules(ruleSource)) =>
            /\ k \notin DOMAIN validateInfos'
            /\ last'.kind = "read"
            /\ UNCHANGED <<normalizedRules, validateInfos, watchers, watchHandles,
                           deepRuleKeys>> ]_vars

\* u.n was read with deep rules off while the rule of u is an object rule
\* that reaches it.
C17_Witness ==
  /\ last = Step("read", {kUN}, "read")
  /\ ~options.deepRule
  /\ kU \in DOMAIN normalizedRules /\ \E i \in 1..Len(normalizedRules[kU]) :
                                          isDeepRule(normalizedRules[kU][i])
  /\ kUN \notin DOMAIN validateInfos

\* C18: updateRules makes the rule index the normalization of the new
\* source and empties the registry.  A path with a watcher that the new
\* source declares keeps its watcher and has its required flag set from
\* the new rules; a declared path without one gets an info that holds the
\* required flag and a watcher created after the kept ones; a path with a
\* watcher that the new source does not declare, deep-registered ones
\* included, loses its info and its watcher.
C18_UpdateRulesReconciles ==
  [][ last'.op = "rules" =>
        LET declared == {normalizeKey(ruleSource'[i].key) : i \in 1..Len(ruleSource')}
            quiet == ~options.validateOnRuleChange
        IN  /\ DOMAIN normalizedRules' = declared
            /\ \A i \in 1..Len(ruleSource') :
                 (\A j \in (i + 1)..Len(ruleSource') :
                    normalizeKey(ruleSource'[j].key) # normalizeKey(ruleSource'[i].key))
                 => normalizedRules'[normalizeKey(ruleSource'[i].key)]
                      = ToArray(ruleSource'[i].value)
            /\ deepRuleKeys' = EmptyMap
            /\ DOMAIN validateInfos' = declared
            /\ watchHandles' = declared
            /\ SelectSeq(watchers', LAMBDA k : k \in watchHandles)
                 = SelectSeq(watchers, LAMBDA k : k \in declared)
            /\ \A k \in declared :
                 /\ Cardinality({i \in 1..Len(watchers') : watchers'[i] = k}) = 1
                 /\ validateInfos'[k].required = SomeRequired(normalizedRules'[k])
                 /\ (quiet /\ k \in watchHandles) =>
                      validateInfos'[k] = [f \in DOMAIN validateInfos[k] \cup {"required"} |->
                                            IF f = "required"
                                            THEN SomeRequired(normalizedRules'[k])
                                            ELSE validateInfos[k][f]]
                 /\ (quiet /\ k \notin watchHandles) =>
                      validateInfos'[k] = [required |-> SomeRequired(normalizedRules'[k])]
            /\ \A k \in watchHandles \ declared :
                 /\ k \notin DOMAIN validateInfos'
                 /\ \A i \in 1..Len(watchers') : watchers'[i] # k ]_vars

\* The rule of u became a plain required rule after u.n had been settled
\* through the object rule: u kept its watcher, its flag was refreshed and
\* the deep path was dropped.
C18_Witness ==
  /\ last.op = "rules"
  /\ ~options.validateOnRuleChange
  /\ DOMAIN normalizedRules = {kU}
  /\ validateInfos[kU].required
  /\ "validateStatus" \in DOMAIN validateInfos[kU]
  /\ watchers = <<kU>>
  /\ deepRuleKeys = EmptyMap

\* C19: after construction nothing is being validated and no path has a
\* status, whatever the options; a change of the rule source starts
\* validateField() over all the declared paths of the reconciled tracking
\* when validateOnRuleChange is on, and starts no validation when it is off.
C19_ValidateOnRuleChange ==
  /\ (inflight = {} /\ ~vf.active /\ done = DoneNone
        /\ \A k \in DOMAIN validateInfos : DOMAIN validateInfos[k] = {"required"})
  /\ [][ last'.op = "rules" =>
           IF options.validateOnRuleChange
           THEN /\ last'.kind = "validate"
                /\ last'.keys = DOMAIN normalizedRules'
                /\ \/ vf'.active /\ {vf'.fields[i] : i \in 1..Len(vf'.fields)} = DOMAIN normalizedRules'
                   \/ done'.kind # "none"
                /\ \E k \in DOMAIN normalizedRules' :
                     "validateStatus" \in DOMAIN validateInfos'[k]
           ELSE /\ last'.kind = ""
                /\ UNCHANGED <<inflight, vf, done>>
                /\ \A k \in DOMAIN validateInfos' :
                     Status(validateInfos', k) =
                       (IF k \in DOMAIN validateInfos THEN Status(validateInfos, k)
                        ELSE VUndef) ]_vars

\* The rule source was replaced with validateOnRuleChange on and the
\* validation of the newly declared path n is under way.
C19_Witness ==
  /\ last.op = "rules" /\ last.kind = "validate"
  /\ options.validateOnRuleChange
  /\ kN \in last.keys
  /\ vf.active

\* C20: no path has two watchers, and every watcher belongs to a path that
\* holds a handle.
C20_OneSubscriptionPerPath ==
  /\ \A i, j \in 1..Len(watchers) : watchers[i] = watchers[j] => i = j
  /\ {watchers[i] : i \in 1..Len(watchers)} = watchHandles

\* The rule source declares n under the two spellings n and [n]: updateRules
\* asked for the watcher of n twice.
C20_Witness ==
  /\ last.op = "rules"
  /\ Len(ruleSource) = 2
  /\ normalizeKey(ruleSource[1].key) = normalizeKey(ruleSource[2].key)
  /\ watchers = <<kN>>

\* C21: after updateRules the rule index has exactly the canonical paths of
\* the declared keys, and the entry of a key is its value as a list: a
\* single rule as a one-element list, a list with the same elements in the
\* same order, an absent value as the empty list (the last declaration
\* counts when two keys have the same canonical path).
C21_NormalizationWrapsValues ==
  [][ last'.op = "rules" =>
        /\ DOMAIN normalizedRules'
             = {normalizeKey(ruleSource'[i].key) : i \in 1..Len(ruleSource')}
        /\ \A i \in 1..Len(ruleSource') :
             LET path == normalizeKey(ruleSource'[i].key)
                 v == ruleSource'[i].value
                 list == normalizedRules'[path]
             IN  (\A j \in (i + 1)..Len(ruleSource') :
                    normalizeKey(ruleSource'[j].key) # path)
                 => /\ v.kind = "one" => list = <<v.rule>>
                    /\ v.kind = "many" =>
                         /\ Len(list) = Len(v.rules)
                         /\ \A m \in 1..Len(list) : list[m] = v.rules[m]
                    /\ v.kind = "absent" => list = <<>> ]_vars

\* The source { n: [rule, required rule], e: undefined } was normalized.
C21_Witness ==
  /\ last.op = "rules"
  /\ DOMAIN normalizedRules = {kN, kE}
  /\ normalizedRules[kN] = <<NoRule, RequiredRule("n?")>>
  /\ normalizedRules[kE] = <<>>

\* C22: every tracked path has a rule list, and its required flag is true
\* exactly when some rule of the list, at any position, has required true.
C22_RequiredFlag ==
  \A k \in DOMAIN validateInfos :
    /\ k \in DOMAIN normalizedRules
    /\ validateInfos[k].required
         = (\E i \in 1..Len(normalizedRules[k]) : normalizedRules[k][i].required)

\* n is required by the second rule of its list, e has no rule at all.
C22_Witness ==
  /\ kN \in DOMAIN validateInfos /\ kE \in DOMAIN validateInfos
  /\ Len(normalizedRules[kN]) = 2
  /\ ~normalizedRules[kN][1].required
  /\ validateInfos[kN].required
  /\ ~validateInfos[kE].required

\* C23: normalizeKey gives a.0.b for a[0].b, for ['a', '0', 'b'] and for
\* a.0.b; a key that is already canonical (no bracket, no leading dot)
\* comes back unchanged; and a call gives what the first call with that
\* raw key gave.
C23_NormalizeCanonical ==
  probe.fn = "normalize" =>
    /\ probe.key \in {<<"a", "[", "0", "]", ".", "b">>, <<"a", ".", "0", ".", "b">>}
         => probe.out = <<"a", ".", "0", ".", "b">>
    /\ ((\A i \in 1..Len(probe.key) : probe.key[i] \notin {"[", "]"})
          /\ (Len(probe.key) > 0 => probe.key[1] # "."))
         => probe.out = probe.key
    /\ probe.key \in DOMAIN probe.nkc => probe.out = probe.nkc[probe.key]

\* C24: when a RuleEngine call for a path settles with a verdict, and no
\* other call covered the path meanwhile (none is in flight and the status
\* is still validating), the path is left with status
\* success and no error message if the engine accepted the value, with
\* status error and the path's first message if the failure map names the
\* path, and with status success and an empty message if the failure map
\* names only other paths (the nested fields of an object rule).
C24_SettledStatusFollowsVerdict ==
  [][ \A c \in inflight \ inflight' :
        (/\ last'.op = "settle"
         /\ c.res.kind \in {"ok", "fail"}
         /\ Status(validateInfos, c.key) = "validating"
         /\ \A d \in inflight \ {c} : c.key \notin {d.key} \cup d.deepKeys)
        => LET info == validateInfos'[c.key]
               named == c.key \in DOMAIN c.res.fields
           IN  /\ c.res.kind = "ok" =>
                    /\ info.validateStatus = "success"
                    /\ "error" \in DOMAIN info => info.error \in {VUndef, ""}
               /\ (c.res.kind = "fail" /\ named) =>
                    /\ info.validateStatus = "error"
                    /\ info.error = c.res.fields[c.key][1].message
               /\ (c.res.kind = "fail" /\ ~named) =>
                    /\ info.validateStatus = "success"
                    /\ info.error = "" ]_vars

\* The validation of the empty required field n has settled.
C24_Witness ==
  /\ last.op = "settle" /\ last.kind = "map" /\ kN \in last.keys
  /\ validateInfos[kN].validateStatus = "error"
  /\ validateInfos[kN].error = "n?"
  /\ inflight = {}

\* C24 as stated: a completed validation of an invalid value leaves the
\* status error.
C24_Original ==
  [][ \A c \in inflight \ inflight' :
        (/\ last'.op = "settle"
         /\ c.res.kind = "fail"
         /\ Status(validateInfos, c.key) = "validating"
         /\ \A d \in inflight \ {c} : c.key \notin {d.key} \cup d.deepKeys)
        => validateInfos'[c.key].validateStatus = "error" ]_vars

\* C25: validateField(paths) runs over the given paths that have an entry
\* in the rule index, and over nothing else; when none has an entry it
\* resolves true and leaves the validator as it was.  validateField()
\* runs over the declared paths, and with deep rules on over none of the
\* paths of the deep registry.
C25_ValidateFieldTargets ==
  [][ last'.op = "validateField" =>
        LET r == IF vf'.active THEN vf' ELSE done'
            targets == {r.fields[i] : i \in 1..Len(r.fields)}
            given == {normalizeKey(r.props.keys[i]) : i \in 1..Len(r.props.keys)}
        IN  IF r.props.given
            THEN /\ targets = given \cap DOMAIN normalizedRules
                 /\ targets = {} =>
                      /\ done'.kind = "resolved" /\ done'.value = "true"
                      /\ UNCHANGED <<validateInfos, inflight, normalizedRules,
                                     deepRuleKeys, watchHandles, watchers, jobs,
                                     timer, heap>>
            ELSE /\ targets = {normalizeKey(ruleSource[i].key) : i \in 1..Len(ruleSource)}
                 /\ options.deepRule => targets \cap DOMAIN deepRuleKeys = {} ]_vars

\* validateField() was called with deep rules on after the deep path u.n had
\* been registered.
C25_Witness ==
  /\ last.op = "validateField"
  /\ vf.active /\ ~vf.props.given
  /\ options.deepRule
  /\ kUN \in DOMAIN deepRuleKeys /\ deepRuleKeys[kUN]
  /\ \A i \in 1..Len(vf.fields) : vf.fields[i] # kUN

\* C26: once dispose() was called no watcher is left: a write to the model
\* queues no job, sets no timer, starts no RuleEngine call and changes no
\* validation info, and a timer can only be one that was already pending;
\* a second dispose() changes nothing.
C26_DisposeStopsSubscriptions ==
  [][ ~scopeActive =>
        /\ watchers' = <<>> /\ watchHandles' = {} /\ jobs' = {}
        /\ timer'.pending => timer.pending
        /\ last'.op = "set" =>
             UNCHANGED <<validateInfos, inflight, timer, vf, done>>
        /\ last'.op = "flush" => UNCHANGED <<validateInfos, inflight, timer>>
        /\ (last'.op = "dispose" /\ ops' = ops + 1) =>
             UNCHANGED <<heap, options, ruleSource, normalizedRules, deepRuleKeys,
                         validateInfos, scopeActive, timer, ticks, inflight, vf,
                         done, watchers, watchHandles, jobs>> ]_vars

\* The model was written to after dispose().
C26_Witness ==
  /\ ~scopeActive
  /\ last.op = "set"
  /\ heap[ModelRef][kN] = "x"
  /\ jobs = {} /\ inflight = {} /\ ~timer.pending

\* C27: the step that starts a RuleEngine call for a path leaves the path
\* (and the paths validated with it) with status validating, and the
\* status of a path becomes success or error only in a step that found it
\* validating.
C27_TerminalOnlyFromValidating ==
  [][ /\ last'.kind = "pending" =>
           \A k \in last'.keys : Status(validateInfos', k) = "validating"
      /\ \A k \in DOMAIN validateInfos :
           (/\ Status(validateInfos', k) \in {"success", "error"}
            /\ Status(validateInfos', k) # Status(validateInfos, k))
           => Status(validateInfos, k) = "validating" ]_vars

\* C28: when validateField(path) finds that get reports the value of path
\* absent, and strict is off or more than one segment is missing, the
\* status of path and of every deep-registered descendant of path is none
\* afterwards, the error of path is cleared, no other path changes its
\* status, the call resolves true and no RuleEngine call is made.
C28_AbsentClearsDescendants ==
  [][ \A key \in {kU, kUN, kUNP} :
        LET g == Get(heap, ModelRef, key)
        IN  (/\ last'.op = "validateField"
             /\ ~vf'.active /\ done'.fields = <<key>>
             /\ ~g.threw /\ ~g.exist /\ (~options.strict \/ g.diff > 1))
            => /\ Status(validateInfos', key) = ""
               /\ key \in DOMAIN validateInfos'
               /\ "error" \in DOMAIN validateInfos'[key]
               /\ validateInfos'[key].error = VUndef
               /\ \A d \in DOMAIN validateInfos :
                    IF d \in ValidIn(deepRuleKeys) /\ Beneath(d, key)
                    THEN Status(validateInfos', d) \in {"", VUndef}
                    ELSE d # key =>
                           \/ Status(validateInfos', d) = Status(validateInfos, d)
                           \/ {Status(validateInfos', d), Status(validateInfos, d)}
                                \subseteq {"", VUndef}
               /\ done'.kind = "resolved" /\ done'.value = "true"
               /\ inflight' = inflight ]_vars

\* C29: with deep rules on, a validateField step that makes a RuleEngine
\* call for a path sets the path and every deep-registered descendant to
\* validating; when the call settles with success all of them are success;
\* when it settles with a failure map each descendant is error with its
\* own first message if the map names it and success without error if not,
\* and the path is error exactly if the map names the path.
C29_CascadeFollowsFailureMap ==
  [][ /\ \A c \in inflight' \ inflight :
           last'.op \in {"validateField", "continue"} =>
             /\ Status(validateInfos', c.key) = "validating"
             /\ \A d \in ValidIn(deepRuleKeys) :
                  Beneath(d, c.key) =>
                    d \in c.deepKeys /\ Status(validateInfos', d) = "validating"
      /\ \A c \in inflight \ inflight' :
           (last'.op = "settle" /\ c.res.kind \in {"ok", "fail"}) =>
             /\ c.res.kind = "ok" =>
                  \A d \in {c.key} \cup c.deepKeys :
                    Status(validateInfos', d) = "success"
             /\ c.res.kind = "fail" =>
                  /\ (Status(validateInfos', c.key) = "error")
                       <=> (c.key \in DOMAIN c.res.fields)
                  /\ \A d \in c.deepKeys :
                       IF d \in DOMAIN c.res.fields
                       THEN /\ validateInfos'[d].validateStatus = "error"
                            /\ validateInfos'[d].error = c.res.fields[d][1].message
                       ELSE /\ validateInfos'[d].validateStatus = "success"
                            /\ validateInfos'[d].error = VUndef ]_vars

\* The validation of u.n settled with a failure map that names u.n.p only.
C29_Witness ==
  /\ last.op = "settle" /\ last.kind = "map"
  /\ last.keys = {kUN, kUNP}
  /\ validateInfos[kUNP].validateStatus = "error"
  /\ validateInfos[kUNP].error = "p?"
  /\ validateInfos[kUN].validateStatus = "success"

\* C30: when the RuleEngine call of a path rejects with something that is
\* not a failure map, triggerValidate rejects with a FormValidationError,
\* which is no failure map and carries the path and the value that was
\* validated; no validation info is written, so the path is not given the
\* status error and no error message is recorded for it.
C30_EngineFaultIsInfrastructureError ==
  [][ \A c \in inflight \ inflight' :
        (last'.op = "settle" /\ c.res.kind = "throw") =>
          /\ last'.kind = "infra"
          /\ validateInfos' = validateInfos
          /\ c.owner = "vf" =>
               /\ vf'.threw /\ vf'.infra
               /\ vf'.maps = vf.maps
               /\ \A q \in DOMAIN ErrorProps(c.key, c.value) :
                    /\ q \in DOMAIN vf'.errs
                    /\ vf'.errs[q][1].field = c.key
                    /\ vf'.errs[q][1].fieldValue = c.value ]_vars

\* The custom rule of e threw during validateField: the call was caught as
\* a FormValidationError for e and e is still validating.
C30_Witness ==
  /\ last.op = "settle" /\ last.kind = "infra" /\ last.keys = {kE}
  /\ vf.infra
  /\ <<"f", "i", "e", "l", "d">> \in DOMAIN vf.errs
  /\ vf.errs[<<"f", "i", "e", "l", "d">>][1].field = kE
  /\ Status(validateInfos, kE) = "validating"

\* C31: RuleEngine calls in flight are never cancelled: a call leaves the
\* set of calls in flight only by settling, and when one settles every
\* other call, also one for the same path, stays in flight.  The status
\* of the path after a call settled with a verdict is the one that call
\* writes (error if its failure map names the path, success if not),
\* whatever value the path holds by then and whatever an earlier call
\* had written.
C31_LastCompleterWins ==
  [][ /\ \A c \in inflight \ inflight' :
           /\ last'.op = "settle"
           /\ inflight' = inflight \ {c}
           /\ (c.res.kind \in {"ok", "fail"} /\ c.key \in DOMAIN validateInfos) =>
                Status(validateInfos', c.key) =
                  IF c.res.kind = "fail" /\ c.key \in DOMAIN c.res.fields
                  THEN "error" ELSE "success" ]_vars

\* The call that validated the empty u.n.p has settled and written error
\* while the model holds 'x' and the call that validates 'x' is in flight.
C31_Witness ==
  /\ last.op = "settle" /\ last.keys = {kUNP}
  /\ Get(heap, ModelRef, kUNP).value = "x"
  /\ Status(validateInfos, kUNP) = "error"
  /\ \E c \in inflight : c.key = kUNP /\ c.value = "x" /\ c.res.kind = "ok"

\* C32: every run of the wrapped function happens Delay after the call
\* that armed the timer and with that call's arguments; a call that is
\* followed by another call less than Delay later never runs the
\* function, and a call that is followed by no call within Delay has run
\* it exactly once as soon as more than Delay has passed.
C32_DebounceRunsLastCall ==
  /\ \A i \in 1..Len(probe.runs) :
       LET r == probe.runs[i]
       IN  /\ r.call \in 1..Len(probe.calls)
           /\ r.at = probe.calls[r.call].at + Delay
           /\ r.args = probe.calls[r.call].args
  /\ \A c \in 1..Len(probe.calls) :
       LET n == Cardinality({i \in 1..Len(probe.runs) : probe.runs[i].call = c})
       IN  /\ (c < Len(probe.calls)
                /\ probe.calls[c + 1].at < probe.calls[c].at + Delay) => n = 0
           /\ (/\ c < Len(probe.calls) => probe.calls[c + 1].at > probe.calls[c].at + Delay
               /\ probe.now > probe.calls[c].at + Delay) => n = 1

\* Two calls less than Delay apart and a third more than Delay later: the
\* function ran for the second and for the third call.
C32_Witness ==
  /\ Len(probe.calls) = 3 /\ Len(probe.runs) = 2
  /\ probe.calls[2].at = probe.calls[1].at + 1
  /\ probe.calls[3].at > probe.calls[2].at + Delay
  /\ probe.runs[1].call = 2 /\ probe.runs[2].call = 3
  /\ probe.calls[1].args # probe.calls[2].args

\* C33: while the validator is not disposed, the paths that have a
\* validation info, the paths that have an entry in the rule index, the
\* paths that hold a watch handle and the paths of the active watchers
\* are the same set, and every path the deep registry marks true is in
\* it.
C33_TrackingSetsAgree ==
  scopeActive =>
    /\ DOMAIN validateInfos = DOMAIN normalizedRules
    /\ DOMAIN normalizedRules = watchHandles
    /\ {watchers[i] : i \in 1..Len(watchers)} = watchHandles
    /\ ValidIn(deepRuleKeys) \subseteq watchHandles

\* clearDeepValidation has just removed the deep path u.n, whose data
\* was deleted, from all of them.
C33_Witness ==
  /\ scopeActive
  /\ last.op = "clearDeep" /\ last.kind = "removed"
  /\ kUN \notin DOMAIN validateInfos
  /\ kU \in DOMAIN validateInfos

\* C34: in every state a path whose status is success has no error
\* message (no error property, undefined or the empty string).
C34_SuccessHasNoMessage ==
  \A k \in DOMAIN validateInfos :
    Status(validateInfos, k) = "success" =>
      \/ "error" \notin DOMAIN validateInfos[k]
      \/ validateInfos[k].error \in {VUndef, ""}

\* C35: a RuleEngine call that settles with success or with a failure map
\* never makes triggerValidate reject with a FormValidationError, also
\* when the path or a deep path it covers has lost its validation info
\* in the meantime, and the settling creates no validation info.
C35_InfraOnlyFromEngineFault ==
  [][ \A c \in inflight \ inflight' :
        (last'.op = "settle" /\ c.res.kind # "throw") =>
          /\ last'.kind # "infra"
          /\ DOMAIN validateInfos' = DOMAIN validateInfos ]_vars

\* C36: the triggerValidate calls of a flush (one for each queued path),
\* the settling of a RuleEngine call and clearValidate(p) change the
\* status only of the paths they are made for and of the paths beneath
\* them (the path, a dot and more): every other path, such as un.n when
\* the path is u, keeps its status (no status and '' are the same).
C36_CascadeStopsAtDot ==
  [][ LET targets == IF last'.op = "flush" THEN jobs
                     ELSE IF last'.op = "settle" THEN {c.key : c \in inflight \ inflight'}
                     ELSE last'.keys
      IN  (\/ last'.op \in {"flush", "settle"}
           \/ last'.op = "clearValidate" /\ last'.keys # {})
          => \A k \in DOMAIN validateInfos \cap DOMAIN validateInfos' :
               (\A t \in targets : k # t /\ ~Beneath(k, t))
               => \/ Status(validateInfos', k) = Status(validateInfos, k)
                  \/ {Status(validateInfos', k), Status(validateInfos, k)}
                       \subseteq {"", VUndef} ]_vars

\* C37: the rule list a deep path was registered with is what
\* getRuleByDeepRule gives for the path on the declared rule source alone,
\* whichever deep paths were read and cached before it.
C37_DeepRulesFromDeclaredSource ==
  \A k \in ValidIn(deepRuleKeys) :
    k \in DOMAIN normalizedRules
      => normalizedRules[k] = getRuleByDeepRule(k, normalizeRules(ruleSource))

C39_ClearAfterDisposeNeverThrows ==
  [][ (~scopeActive /\ ops' = ops + 1
       /\ last'.op \in {"clearValidate", "clearDeep"})
      => last'.kind # "threw" ]_vars

\* C40: get never throws, and when the walk stops at a segment before the
\* last one (the segment is missing, or the value reached is null,
\* undefined or a primitive) it reports exist = false with diff equal to
\* the number of segments after that one.
C40_GetNeverThrows ==
  probe.fn = "get" =>
    LET segs == Split(probe.key)
    IN  /\ ~probe.res.threw
        /\ \A i \in 1..(Len(segs) - 1) :
             (/\ HasPath(heap, ModelRef, SubSeq(segs, 1, i - 1), 1)
              /\ ~HasPath(heap, ModelRef, SubSeq(segs, 1, i), 1))
             => ~probe.res.exist /\ probe.res.diff = Len(segs) - i

====
